---- MODULE Spec2Model ----
(***************************************************************************)
(* A model of the publication coordination core of content-engine:         *)
(* PublicationManager (managers/publication_manager.py), the content       *)
(* transforms of ContentProcessor (processors/content_processor.py) and    *)
(* the retry logic of utils/error_handler.py and client/hashnode_client.py.*)
(*                                                                         *)
(* Python strings whose characters matter (bodies, tags) are sequences of  *)
(* one-character strings; strings that are only compared (titles, covers,  *)
(* identifiers, messages) are TLA+ strings.  None is the string "None".    *)
(***************************************************************************)
EXTENDS Integers, Sequences, FiniteSets, TLC

\* ------------------------------------------------------------------------
\* Text helpers: Python's str and re operations used by the code
\* ------------------------------------------------------------------------

None == "None"

\* The characters Python's str.strip() and the regex class \s treat as
\* whitespace, restricted to those the model's texts use.
Whitespace == {" ", "\n", "\t"}

\* s[i:] starts with pat (1-based i).
StartsWithAt(s, i, pat) ==
    /\ i >= 1
    /\ i + Len(pat) - 1 <= Len(s)
    /\ SubSeq(s, i, i + Len(pat) - 1) = pat

\* s[i:] (1-based i), the empty text when i is past the end.
Tail_From(s, i) == IF i > Len(s) THEN <<>> ELSE SubSeq(s, i, Len(s))

\* str.lstrip()
RECURSIVE LStrip(_)
LStrip(s) ==
    IF s /= <<>> /\ Head(s) \in Whitespace THEN LStrip(Tail(s)) ELSE s

\* str.rstrip()
RECURSIVE RStrip(_)
RStrip(s) ==
    IF s /= <<>> /\ s[Len(s)] \in Whitespace
    THEN RStrip(SubSeq(s, 1, Len(s) - 1))
    ELSE s

\* str.strip()
Strip(s) == RStrip(LStrip(s))

\* re.sub(r"\s+", " ", s): every maximal run of whitespace becomes one space.
RECURSIVE CollapseWhitespace(_)
CollapseWhitespace(s) ==
    IF s = <<>> THEN <<>>
    ELSE IF Head(s) \in Whitespace
         THEN <<" ">> \o CollapseWhitespace(LStrip(s))
         ELSE <<Head(s)>> \o CollapseWhitespace(Tail(s))

\* The position of the first occurrence of pat in s at or after i, 0 if none.
RECURSIVE FindFrom(_, _, _)
FindFrom(s, i, pat) ==
    IF i + Len(pat) - 1 > Len(s) THEN 0
    ELSE IF StartsWithAt(s, i, pat) THEN i
    ELSE FindFrom(s, i + 1, pat)

\* ------------------------------------------------------------------------
\* ContentProcessor: normalisation for comparison
\* ------------------------------------------------------------------------

FrontmatterOpen == <<"-", "-", "-", "\n">>
FrontmatterClose == <<"\n", "-", "-", "-", "\n">>

\* _remove_frontmatter with a greedy group: the block ends at the last closing
\* delimiter.
RECURSIVE FindLast(_, _, _)
FindLast(s, i, pat) ==
    LET j == FindFrom(s, i, pat)
    IN  IF j = 0 THEN 0
        ELSE LET k == FindLast(s, j + 1, pat) IN IF k = 0 THEN j ELSE k

RemoveFrontmatterGreedy(content) ==
    IF ~StartsWithAt(content, 1, FrontmatterOpen) THEN content
    ELSE LET j == FindLast(content, Len(FrontmatterOpen) + 1, FrontmatterClose)
         IN  IF j = 0 THEN content
             ELSE Tail_From(content, j + Len(FrontmatterClose))

\* _remove_frontmatter: re.sub(r"^---\n(.*?)\n---\n", "", content, DOTALL).
\* Without re.MULTILINE ^ matches at the start of the text only, and the
\* non-greedy group ends at the first closing delimiter after the opening one.
_remove_frontmatter(content) ==
    IF ~StartsWithAt(content, 1, FrontmatterOpen) THEN content
    ELSE LET j == FindFrom(content, Len(FrontmatterOpen) + 1, FrontmatterClose)
         IN  IF j = 0 THEN content
             ELSE Tail_From(content, j + Len(FrontmatterClose))

AlignOpen == <<"a", "l", "i", "g", "n", "=", "\"">>
Quote == <<"\"">>

\* The number of whitespace characters s has from position i on.
RECURSIVE WhitespaceRun(_, _)
WhitespaceRun(s, i) ==
    IF i <= Len(s) /\ s[i] \in Whitespace THEN 1 + WhitespaceRun(s, i + 1) ELSE 0

\* The last position of a match of \s*align="[^"]*" starting at i, 0 if none.
\* \s* is greedy and align cannot start with whitespace, so the attribute
\* name must follow the whole whitespace run; [^"]* stops at the next quote.
AlignMatchEnd(s, i) ==
    LET k == WhitespaceRun(s, i)
    IN  IF ~StartsWithAt(s, i + k, AlignOpen) THEN 0
        ELSE FindFrom(s, i + k + Len(AlignOpen), Quote)

\* re.sub(r'\s*align="[^"]*"', "", s): leftmost non-overlapping matches are
\* removed in one left-to-right pass.
RECURSIVE RemoveAlignFrom(_, _)
RemoveAlignFrom(s, i) ==
    IF i > Len(s) THEN <<>>
    ELSE LET e == AlignMatchEnd(s, i)
         IN  IF e > 0 THEN RemoveAlignFrom(s, e + 1)
             ELSE <<s[i]>> \o RemoveAlignFrom(s, i + 1)

RemoveAlign(s) == RemoveAlignFrom(s, 1)

\* normalize_content_for_comparison
normalize_content_for_comparison(content) ==
    RemoveAlign(CollapseWhitespace(Strip(_remove_frontmatter(content))))

\* ------------------------------------------------------------------------
\* ContentProcessor: platform transformations, table of contents, tags
\* ------------------------------------------------------------------------

UpperChars == <<"A", "B", "C", "D", "E", "F", "G", "H", "I", "J", "K", "L", "M",
                "N", "O", "P", "Q", "R", "S", "T", "U", "V", "W", "X", "Y", "Z">>
LowerChars == <<"a", "b", "c", "d", "e", "f", "g", "h", "i", "j", "k", "l", "m",
                "n", "o", "p", "q", "r", "s", "t", "u", "v", "w", "x", "y", "z">>
Digits == {"0", "1", "2", "3", "4", "5", "6", "7", "8", "9"}
Letters == {UpperChars[i] : i \in 1..26} \cup {LowerChars[i] : i \in 1..26}

\* str.lower() on one character
LowerChar(c) ==
    IF \E i \in 1..26 : UpperChars[i] = c
    THEN LowerChars[CHOOSE i \in 1..26 : UpperChars[i] = c]
    ELSE c

\* str.lower()
Lower(s) == [i \in 1..Len(s) |-> LowerChar(s[i])]

\* The characters of s that are in Keep (re.sub of a negated class by "").
RECURSIVE KeepOnly(_, _)
KeepOnly(s, Keep) ==
    IF s = <<>> THEN <<>>
    ELSE (IF Head(s) \in Keep THEN <<Head(s)>> ELSE <<>>) \o KeepOnly(Tail(s), Keep)

\* The number of characters of Class s has from position i on.
RECURSIVE RunLength(_, _, _)
RunLength(s, i, Class) ==
    IF i <= Len(s) /\ s[i] \in Class THEN 1 + RunLength(s, i + 1, Class) ELSE 0

\* re.sub(r"[Class]+", rep, s): every maximal run of Class becomes rep.
RECURSIVE ReplaceRuns(_, _, _)
ReplaceRuns(s, Class, rep) ==
    IF s = <<>> THEN <<>>
    ELSE IF Head(s) \in Class
         THEN rep \o ReplaceRuns(Tail_From(s, RunLength(s, 1, Class) + 1), Class, rep)
         ELSE <<Head(s)>> \o ReplaceRuns(Tail(s), Class, rep)

\* str.strip(chars) for a set of characters
RECURSIVE StripChars(_, _)
StripChars(s, Class) ==
    IF s /= <<>> /\ Head(s) \in Class THEN StripChars(Tail(s), Class)
    ELSE IF s /= <<>> /\ s[Len(s)] \in Class
         THEN StripChars(SubSeq(s, 1, Len(s) - 1), Class)
         ELSE s

\* re.sub(r'\s*' + attr, "", s) for a literal attr
RECURSIVE RemoveAttrFrom(_, _, _)
RemoveAttrFrom(s, i, attr) ==
    IF i > Len(s) THEN <<>>
    ELSE IF StartsWithAt(s, i + WhitespaceRun(s, i), attr)
         THEN RemoveAttrFrom(s, i + WhitespaceRun(s, i) + Len(attr), attr)
         ELSE <<s[i]>> \o RemoveAttrFrom(s, i + 1, attr)

AlignCenter == <<"a", "l", "i", "g", "n", "=", "\"", "c", "e", "n", "t", "e", "r", "\"">>
AlignLeft == <<"a", "l", "i", "g", "n", "=", "\"", "l", "e", "f", "t", "\"">>
AlignRight == <<"a", "l", "i", "g", "n", "=", "\"", "r", "i", "g", "h", "t", "\"">>

\* _apply_hashnode_transformations
_apply_hashnode_transformations(content) ==
    RemoveAttrFrom(RemoveAttrFrom(RemoveAttrFrom(content, 1, AlignCenter),
                                  1, AlignLeft),
                   1, AlignRight)

\* _apply_devto_transformations
_apply_devto_transformations(content) == content

TocHeader == <<"#", "#", " ", "T", "a", "b", "l", "e", " ", "o", "f", " ", "C", "o", "n", "t", "e", "n", "t", "s">>
TocNoSections == <<"*", "N", "o", " ", "s", "e", "c", "t", "i", "o", "n", "s", " ", "f", "o", "u", "n", "d", "*">>

\* The end of the line that holds position i (the position before the next
\* newline, or the end of the text).
RECURSIVE LineEnd(_, _)
LineEnd(s, i) ==
    IF i > Len(s) \/ s[i] = "\n" THEN i - 1 ELSE LineEnd(s, i + 1)

\* The number of whitespace characters \s+ keeps, of a run of w that starts at
\* position i, so that (.+) still has a character other than a newline to
\* take: the regex gives whitespace back one character at a time.  0 if none.
RECURSIVE HeaderGap(_, _, _)
HeaderGap(s, i, w) ==
    IF w = 0 THEN 0
    ELSE IF i + w <= Len(s) /\ s[i + w] /= "\n" THEN w
    ELSE HeaderGap(s, i, w - 1)

\* re.findall(r"^(#{1,6})\s+(.+)$", content, re.MULTILINE) from position i
\* on: the (level, title) pairs of the headers.
RECURSIVE FindHeaders(_, _)
FindHeaders(s, i) ==
    IF i > Len(s) THEN <<>>
    ELSE IF ~(i = 1 \/ s[i - 1] = "\n") THEN FindHeaders(s, i + 1)
    ELSE LET h == RunLength(s, i, {"#"})
             g == HeaderGap(s, i + h, WhitespaceRun(s, i + h))
         IN  IF h >= 1 /\ h <= 6 /\ g >= 1
             THEN <<[level |-> h,
                     title |-> SubSeq(s, i + h + g, LineEnd(s, i + h + g))]>>
                  \o FindHeaders(s, LineEnd(s, i + h + g) + 1)
             ELSE FindHeaders(s, i + 1)

WordChars == Letters \cup Digits \cup {"_"}

\* The GitHub-style anchor of a header title.
TocAnchor(title) ==
    StripChars(ReplaceRuns(KeepOnly(Lower(title), WordChars \cup Whitespace \cup {"-"}),
                           Whitespace \cup {"-"}, <<"-">>),
               {"-"})

RECURSIVE Indent(_)
Indent(n) == IF n <= 0 THEN <<>> ELSE <<" ", " ">> \o Indent(n - 1)

TocLine(h) ==
    Indent(h.level - 1) \o <<"-", " ", "[">> \o h.title \o <<"]", "(", "#">>
        \o TocAnchor(h.title) \o <<")">>

RECURSIVE TocLines(_)
TocLines(hs) ==
    IF hs = <<>> THEN <<>> ELSE <<"\n">> \o TocLine(Head(hs)) \o TocLines(Tail(hs))

\* _generate_table_of_contents.  build_toc of md_toc takes a file name; it is
\* handed the text, fails to open it and the except branch falls through to
\* the manual generation below.
_generate_table_of_contents(content) ==
    LET headers == FindHeaders(content, 1)
    IN  IF headers = <<>> THEN TocHeader \o <<"\n", "\n">> \o TocNoSections
        ELSE TocHeader \o <<"\n">> \o TocLines(headers)

\* process_content_for_platform
process_content_for_platform(post_content, platform) ==
    LET toc == _generate_table_of_contents(post_content.body_markdown)
        content == IF post_content.enable_toc /\ toc /= <<>>
                   THEN toc \o <<"\n", "\n">> \o post_content.body_markdown
                   ELSE post_content.body_markdown
    IN  IF platform = "hashnode" THEN _apply_hashnode_transformations(content)
        ELSE IF platform = "devto" THEN _apply_devto_transformations(content)
        ELSE content

\* str.split(",")
RECURSIVE SplitComma(_)
SplitComma(s) ==
    LET j == FindFrom(s, 1, <<",">>)
    IN  IF j = 0 THEN <<s>>
        ELSE <<SubSeq(s, 1, j - 1)>> \o SplitComma(Tail_From(s, j + 1))

\* ",".join(parts)
RECURSIVE JoinComma(_)
JoinComma(parts) ==
    IF parts = <<>> THEN <<>>
    ELSE IF Len(parts) = 1 THEN parts[1]
    ELSE parts[1] \o <<",">> \o JoinComma(Tail(parts))

\* [f(t) for t in parts if t], for the stripped parts of a comma split
RECURSIVE StripNonEmpty(_)
StripNonEmpty(parts) ==
    IF parts = <<>> THEN <<>>
    ELSE (IF Strip(Head(parts)) /= <<>> THEN <<Strip(Head(parts))>> ELSE <<>>)
         \o StripNonEmpty(Tail(parts))

\* _sanitize_tag_for_hashnode without the collapse of repeated hyphens.
SanitizeKeepsHyphenRuns(tag) ==
    StripChars(
        ReplaceRuns(KeepOnly(Strip(Lower(tag)),
                             Letters \cup Digits \cup Whitespace \cup {"-"}),
                    Whitespace, <<"-">>),
        {"-"})

\* _sanitize_tag_for_hashnode
_sanitize_tag_for_hashnode(tag) ==
    StripChars(
        ReplaceRuns(
            ReplaceRuns(KeepOnly(Strip(Lower(tag)),
                                 Letters \cup Digits \cup Whitespace \cup {"-"}),
                        Whitespace, <<"-">>),
            {"-"}, <<"-">>),
        {"-"})

\* _sanitize_tag_for_devto
_sanitize_tag_for_devto(tag) == Lower(Strip(tag))

\* The first loop of convert_tags_for_platform: comma-separated tags are
\* split, the others stripped.
RECURSIVE ProcessedTags(_)
ProcessedTags(tags) ==
    IF tags = <<>> THEN <<>>
    ELSE (IF FindFrom(Head(tags), 1, <<",">>) > 0
          THEN StripNonEmpty(SplitComma(Head(tags)))
          ELSE <<Strip(Head(tags))>>)
         \o ProcessedTags(Tail(tags))

\* convert_tags_for_platform
RECURSIVE FormatTags(_, _)
FormatTags(processed, platform) ==
    IF processed = <<>> THEN <<>>
    ELSE LET tag == Head(processed)
             rest == FormatTags(Tail(processed), platform)
         IN  IF platform = "hashnode"
             THEN (IF tag /= <<>> THEN <<_sanitize_tag_for_hashnode(tag)>> ELSE <<>>) \o rest
             ELSE IF platform = "devto"
             THEN (IF tag /= <<>> THEN <<_sanitize_tag_for_devto(tag)>> ELSE <<>>) \o rest
             ELSE (IF Strip(tag) /= <<>> THEN <<Lower(Strip(tag))>> ELSE <<>>) \o rest

convert_tags_for_platform(tags, platform) ==
    IF tags = <<>> THEN <<>> ELSE FormatTags(ProcessedTags(tags), platform)

\* generate_canonical_url: every branch returns the item's canonical URL.
generate_canonical_url(post_content, platform) == post_content.canonical_url

\* ------------------------------------------------------------------------
\* Exceptions (utils/error_handler.py)
\* ------------------------------------------------------------------------

\* The classified failures: the subclasses of PublishingError the coordinator
\* names in its except clauses.
Classified == {"AuthenticationError", "RateLimitError", "APIError"}

\* Every kind of exception a client call raises in the model: the classified
\* ones and a plain Exception.
ExceptionKinds == Classified \cup {"Exception"}

\* The message an exception of each kind carries: str(e).
MessageOf(kind) ==
    CASE kind = "AuthenticationError" -> "invalid key"
      [] kind = "RateLimitError" -> "slow down"
      [] kind = "APIError" -> "server error"
      [] OTHER -> "boom"

Messages == {MessageOf(kind) : kind \in ExceptionKinds}

NoException == [kind |-> None, msg |-> ""]

Exceptions == {[kind |-> kind, msg |-> MessageOf(kind)] : kind \in ExceptionKinds}

\* What one client call does: returns normally, or raises.
CallOutcomes == {NoException} \cup Exceptions

\* ------------------------------------------------------------------------
\* The data of one run
\* ------------------------------------------------------------------------

Platforms == {"devto", "hashnode"}

\* The client maps a PublicationManager is built with: the configured
\* platforms in the dictionary's insertion order.
ClientMaps ==
    {<<"devto", "hashnode">>, <<"hashnode", "devto">>, <<"devto">>, <<"hashnode">>}

BodyPlain == <<"a", " ", "b">>
BodySpaced == <<"a", " ", " ", "b", "\n">>
BodyOther == <<"c">>

TagX == <<"x">>
TagY == <<"y">>

\* The articles to publish (PostContent).
Items ==
    [title : {"T"},
     body_markdown : {BodyPlain},
     tags : {<<TagX, TagY>>},
     cover : {"img"},
     save_as_draft : BOOLEAN,
     enable_toc : BOOLEAN,
     canonical_url : {"https://d/s"}]

\* The identifiers a platform gives its articles: str(next_id).
IdOf(n) == CASE n = 1 -> "1" [] n = 2 -> "2" [] n = 3 -> "3" [] OTHER -> "4"

\* A remote article as the platform returns it; tags come as a list or as a
\* comma-separated string.
ListTags(l) == [kind |-> "list", val |-> l]
StrTags(t) == [kind |-> "str", val |-> t]

RemoteArticles ==
    [title : {"T", "U"},
     body_markdown : {BodyPlain, BodySpaced, BodyOther},
     tags : {ListTags(<<TagX, TagY>>), ListTags(<<TagY, TagX, TagY>>), ListTags(<<TagX>>)},
     published : BOOLEAN,
     cover_image : {"img", ""}]

\* The remote articles that carry the item's title and differ from the item
\* in the raw body and, possibly, the published flag only.
SmallArticles ==
    {a \in RemoteArticles :
        /\ a.title = "T"
        /\ a.body_markdown = BodySpaced
        /\ a.tags = ListTags(<<TagX, TagY>>)
        /\ a.cover_image = "img"}

OtherArticle ==
    [title |-> "U", body_markdown |-> BodyOther, tags |-> ListTags(<<TagX>>),
     published |-> TRUE, cover_image |-> ""]

\* What a platform stores before the run: nothing, one article, or two.
Stores ==
    {<<>>} \cup {<<a>> : a \in RemoteArticles}
           \cup {<<OtherArticle, a>> : a \in SmallArticles}

\* The stores drawn when several platforms are configured.
SmallStores == {<<>>} \cup {<<a>> : a \in SmallArticles}

VARIABLES
    post_content,      \* the PostContent handed to the coordinator
    platform_clients,  \* PublicationManager.platform_clients, in dict order
    articles,          \* each client's stored articles, by position
    calls,             \* the calls each client has received, in order
    results,           \* what the running method has built: the results list of
                       \* publish_to_all_platforms, or the entries of the dict
                       \* of get_platform_status or validate_platform_clients
    pc,                \* the position of the coordinator in its loop
    idx,               \* the index of the platform being processed
    article_id,        \* the identifier find_article_by_title returned
    is_published,      \* the flag find_article_by_title returned with it
    raised,            \* an exception that left the running method
    caller,            \* the method that runs: "publish", "needs_update",
                       \* "status" or "validate"
    needs_update,      \* what _needs_update returned to a direct caller
    articles_before,   \* the stored articles when the method was entered
    wrapper,           \* the retry loop that runs: "decorator" or "run_query"
    max_retries,       \* the retry budget of the loop
    base_delay,        \* the decorator's base_delay
    max_delay,         \* the decorator's max_delay
    backoff_factor,    \* the decorator's backoff_factor
    since_last_request, \* time.time() - last_request_time on entering _run_query
    attempt,           \* the loop variable of the retry loop
    invocations,       \* how often the wrapped call was made
    sleeps,            \* the calls of time.sleep, in order
    last_exception,    \* last_exception of the retry loop
    wpc,               \* the position of the retry loop
    returned,          \* what the retry loop returned
    thrown,            \* what the retry loop raised to its caller
    failures,          \* how often the wrapped call raised
    call_raised,       \* what the wrapped call raised last
    raises,            \* what the wrapped call raised, call after call
    only_rate_limits,  \* every failure of the wrapped call so far was a rate limit
    input,             \* a function that is called on its own, and its arguments
    output,            \* what that function returned or raised
    fpc                \* the position of that call: "call", then "done"

coordinator_vars ==
    <<post_content, platform_clients, articles, calls, results, pc, idx,
      article_id, is_published, raised, caller, needs_update, articles_before>>

retry_vars ==
    <<wrapper, max_retries, base_delay, max_delay, backoff_factor,
      since_last_request, attempt, invocations, sleeps, last_exception, wpc,
      returned, thrown, failures, call_raised, raises, only_rate_limits>>

function_vars == <<input, output, fpc>>

vars == <<coordinator_vars, retry_vars, function_vars>>

\* ------------------------------------------------------------------------
\* The platform client (interfaces/platform_client.py, as the repository's
\* MockPlatformClient implements it)
\* ------------------------------------------------------------------------

\* find_article_by_title: the first stored article with exactly this title.
find_article_by_title(store, title) ==
    IF \E i \in 1..Len(store) : store[i].title = title
    THEN LET i == CHOOSE i \in 1..Len(store) :
                     /\ store[i].title = title
                     /\ \A j \in 1..(i - 1) : store[j].title /= title
         IN  [article_id |-> IdOf(i), is_published |-> store[i].published]
    ELSE [article_id |-> None, is_published |-> FALSE]

\* get_article: the stored article when its published flag is the one asked
\* for, else nothing.  Options are sequences of length 0 or 1.
get_article(store, id, published) ==
    IF \E i \in 1..Len(store) : IdOf(i) = id /\ store[i].published = published
    THEN LET i == CHOOSE i \in 1..Len(store) : IdOf(i) = id
         IN  << store[i] >>
    ELSE <<>>

\* The article a client stores for a payload.
StoredArticle(content_dict, published) ==
    [title |-> content_dict.frontmatterData.title,
     body_markdown |-> content_dict.bodyMarkdown,
     published |-> published,
     tags |-> ListTags(IF content_dict.frontmatterData.tags /= <<>>
                       THEN SplitComma(content_dict.frontmatterData.tags)
                       ELSE <<>>),
     cover_image |-> content_dict.frontmatterData.cover]

\* publish_article: the article is stored under the next identifier.
publish_article(store, content_dict, published) ==
    [store |-> Append(store, StoredArticle(content_dict, published)),
     response |-> [id |-> IdOf(Len(store) + 1)]]

\* update_article: the stored article, if any, takes the payload's fields.
update_article(store, id, content_dict, published) ==
    [store |-> [i \in 1..Len(store) |->
                   IF IdOf(i) = id THEN StoredArticle(content_dict, published)
                   ELSE store[i]],
     response |-> [id |-> id]]

\* ------------------------------------------------------------------------
\* PublicationManager
\* ------------------------------------------------------------------------

\* _create_content_dict
_create_content_dict(item, processed_content, platform_name) ==
    [frontmatterData |->
        [title |-> item.title,
         tags |-> JoinComma(convert_tags_for_platform(item.tags, platform_name)),
         cover |-> item.cover,
         saveAsDraft |-> item.save_as_draft,
         canonicalUrl |-> generate_canonical_url(item, platform_name)],
     bodyMarkdown |-> processed_content]

\* ItemAfterPayload with the tags converted in the item's own list.
ItemAfterPayloadConvertsInPlace(item, platform_name) ==
    [item EXCEPT !.tags = convert_tags_for_platform(item.tags, platform_name)]

\* The item once _publish_to_platform has built the payload from it:
\* process_content_for_platform and _create_content_dict read its fields and
\* build new strings and lists (processed_tags, the joined tag string); they
\* assign to none of them.
ItemAfterPayload(item, platform_name) == item

\* The payload _publish_to_platform builds for a platform.
ContentDict(item, platform_name) ==
    _create_content_dict(item, process_content_for_platform(item, platform_name),
                         platform_name)

\* The published argument with the draft flag ignored.
PublishedAlways(item) == TRUE

\* not post_content.save_as_draft, the published argument of both mutating
\* calls.
PublishedArgument(item) == ~item.save_as_draft

\* dict.get(key, default)
Get(d, key, default) == IF key \in DOMAIN d THEN d[key] ELSE default

\* set(seq)
ToSet(seq) == {seq[i] : i \in 1..Len(seq)}

\* The tag list _needs_update compares: a comma-separated string is split
\* and its empty parts dropped, anything that is no list counts as no tags.
ExistingTags(existing_article) ==
    LET t == Get(existing_article, "tags", ListTags(<<>>))
    IN  IF t.kind = "str" THEN StripNonEmpty(SplitComma(t.val))
        ELSE IF t.kind = "list" THEN t.val
        ELSE <<>>

title_changed(item, existing_article) ==
    item.title /= Get(existing_article, "title", "")

content_changed(item, existing_article) ==
    normalize_content_for_comparison(item.body_markdown)
        /= normalize_content_for_comparison(Get(existing_article, "body_markdown", <<>>))

\* tags_changed comparing the lists themselves.
TagsChangedByList(item, existing_article) ==
    item.tags /= ExistingTags(existing_article)

tags_changed(item, existing_article) ==
    ToSet(item.tags) /= ToSet(ExistingTags(existing_article))

published_changed(item, existing_article) ==
    (~item.save_as_draft) /= Get(existing_article, "published", FALSE)

cover_changed(item, existing_article) ==
    item.cover /= Get(existing_article, "cover_image", "")

\* changes_detected with the cover comparison left out.
ChangesDetectedNoCover(item, existing_article) ==
    \/ title_changed(item, existing_article)
    \/ content_changed(item, existing_article)
    \/ tags_changed(item, existing_article)
    \/ published_changed(item, existing_article)

\* changes_detected of _needs_update, for an article that was fetched
changes_detected(item, existing_article) ==
    \/ title_changed(item, existing_article)
    \/ content_changed(item, existing_article)
    \/ tags_changed(item, existing_article)
    \/ published_changed(item, existing_article)
    \/ cover_changed(item, existing_article)

\* PublicationResult
PublicationResult(platform, success, action, id, error_message) ==
    [platform |-> platform, success |-> success, action |-> action,
     article_id |-> id, error_message |-> error_message]

\* OuterHandler without its second clause, except Exception.
OuterHandlerClassifiedOnly(e) ==
    IF e.kind \in Classified THEN "classified" ELSE "none"

\* The except clauses of publish_to_all_platforms.  A message is the sequence
\* of the strings it is concatenated from; no message (None) is <<>>.
\* "none" when no clause matches and the exception leaves the method.
OuterHandler(e) ==
    IF e.kind \in Classified THEN "classified"
    ELSE IF e.kind \in ExceptionKinds THEN "unexpected"
    ELSE "none"

ErrorResultWithoutMessage(platform_name, e) ==
    PublicationResult(platform_name, FALSE, "error", None, <<>>)

\* The PublicationResult an except clause of the loop appends.
ErrorResult(platform_name, e) ==
    IF OuterHandler(e) = "classified"
    THEN PublicationResult(platform_name, FALSE, "error", None, <<e.msg>>)
    ELSE PublicationResult(platform_name, FALSE, "error", None,
                           <<"Unexpected error: ", e.msg>>)

\* NeedsUpdateReraises with the first except clause missing.
NeedsUpdateAbsorbsAll(e) == FALSE

\* The except clauses of _needs_update: a classified failure is re-raised,
\* any other exception makes the check answer True.
NeedsUpdateReraises(e) == e.kind \in Classified

\* The position of the loop after a result was appended for platform i of n.
NextPlatform(i, n) ==
    IF i < n
    THEN [pc |-> IF caller = "validate" THEN "validate" ELSE "lookup", idx |-> i + 1]
    ELSE [pc |-> IF caller = "publish" THEN "summary" ELSE "returned", idx |-> i]

\* AfterError with break in place of continue.
AfterErrorBreaks(i, n) == [pc |-> "summary", idx |-> i]

\* The position of the loop after an except clause appended an error result
\* for platform i of n: continue.
AfterError(i, n) == NextPlatform(i, n)

\* AfterLookup with the create branch lost, and with the update branch lost.
AfterLookupAlwaysFetch(id) == "fetch_published"

AfterLookupAlwaysCreate(id) == "create"

\* AfterLookup going straight to the update, without change detection.
AfterLookupUpdatesUnchecked(id) == IF id = None THEN "create" ELSE "update"

\* The branch of _publish_to_platform on the identifier lookup returned.
AfterLookup(id) == IF id = None THEN "create" ELSE "fetch_published"

\* NotRetrievable failing closed.
NotRetrievableFalse == FALSE

\* What _needs_update answers when neither fetch returned an article.
NotRetrievable == TRUE

\* What _needs_update answers when a fetch raised an exception it absorbs.
CannotCheck == TRUE

\* One entry of the dict get_platform_status returns: status[platform].  error
\* is <<>> when the entry has no key "error".
StatusEntry(platform, exists, id, published, needs, error) ==
    [platform |-> platform, exists |-> exists, article_id |-> id,
     published |-> published, needs_update |-> needs, error |-> error]

\* The except clauses of get_platform_status.
StatusHandler(e) ==
    IF e.kind \in Classified THEN "classified"
    ELSE IF e.kind \in ExceptionKinds THEN "unexpected"
    ELSE "none"

StatusError(platform_name, e) ==
    StatusEntry(platform_name, FALSE, None, FALSE, FALSE,
                IF StatusHandler(e) = "classified"
                THEN <<e.msg>>
                ELSE <<"Unexpected error: ", e.msg>>)

TruthyAlways(id) == TRUE

\* if article_id: a None and an empty identifier count as no article.
Truthy(id) == id /= None /\ id /= ""

\* What a client call does while PostPublisher works through its files: it
\* returns normally or fails with an APIError.
RunOutcomes == {NoException, [kind |-> "APIError", msg |-> MessageOf("APIError")]}

\* What a client call does in the current state.
ClientOutcomes == IF fpc = "idle" THEN CallOutcomes ELSE RunOutcomes

\* Platform with the loop variable ignored: every pass uses the first client.
PlatformFirst == platform_clients[1]

\* for platform_name, client in self.platform_clients.items()
Platform == platform_clients[idx]

Called(c) == calls' = [calls EXCEPT ![Platform] = Append(@, c)]

\* results.append(result), then the loop goes to position pos.
Record(result, pos) ==
    /\ results' = Append(results, result)
    /\ pc' = pos.pc
    /\ idx' = pos.idx
    /\ article_id' = None
    /\ is_published' = FALSE
    /\ UNCHANGED <<raised, needs_update>>

\* An exception leaves the running method.  From _publish_to_platform (both
\* of its except clauses re-raise) it reaches the except clauses of the loop;
\* a direct caller of _needs_update receives it.
Raise(e) ==
    IF caller = "publish" /\ OuterHandler(e) /= "none"
    THEN Record(ErrorResult(Platform, e), AfterError(idx, Len(platform_clients)))
    ELSE IF caller = "status" /\ StatusHandler(e) /= "none"
    THEN Record(StatusError(Platform, e), NextPlatform(idx, Len(platform_clients)))
    ELSE /\ raised' = e
         /\ pc' = "raised"
         /\ UNCHANGED <<results, idx, article_id, is_published, needs_update>>

\* Decide with the skip branch lost: the update is made whatever the answer.
DecideAlwaysUpdates(answer) ==
    IF caller = "publish"
    THEN pc' = "update" /\ UNCHANGED <<results, idx, article_id, is_published, raised, needs_update>>
    ELSE /\ needs_update' = answer
         /\ pc' = "returned"
         /\ UNCHANGED <<results, idx, article_id, is_published, raised>>

\* _needs_update returns answer: _publish_to_platform updates or skips, a
\* direct caller receives the answer.
Decide(answer) ==
    IF caller = "publish"
    THEN IF answer
         THEN pc' = "update" /\ UNCHANGED <<results, idx, article_id, is_published, raised, needs_update>>
         ELSE Record(PublicationResult(Platform, TRUE, "skipped", article_id, <<>>),
                     NextPlatform(idx, Len(platform_clients)))
    ELSE IF caller = "status"
    THEN Record(StatusEntry(Platform, TRUE, article_id, is_published, answer, <<>>),
                NextPlatform(idx, Len(platform_clients)))
    ELSE /\ needs_update' = answer
         /\ pc' = "returned"
         /\ UNCHANGED <<results, idx, article_id, is_published, raised>>

\* Fetched with `if not existing_article` lost: the method goes on with
\* if_none whether or not an article came back.
FetchedIgnoresArticle(e, existing, if_none) ==
    IF e /= NoException
    THEN IF NeedsUpdateReraises(e) THEN Raise(e) ELSE Decide(CannotCheck)
    ELSE if_none

\* What a fetch of _needs_update leads to: a classified failure leaves the
\* method, another exception is absorbed, an article is compared, and when
\* nothing was found the method goes on with if_none.
Fetched(e, existing, if_none) ==
    IF e /= NoException
    THEN IF NeedsUpdateReraises(e) THEN Raise(e) ELSE Decide(CannotCheck)
    ELSE IF existing /= <<>>
         THEN Decide(changes_detected(post_content, existing[1]))
         ELSE if_none

\* An exception of the wrapped call.  response is <<>> for None and else holds
\* the HTTP response; hint is PublishingError.retry_after, <<>> for None.
\* transport_auth and transport_rate say whether the text of a TransportError
\* holds 401, 403 or Unauthorized, and 429 or "rate limit".
Failure(kind, response, hint) ==
    [kind |-> kind, response |-> response, hint |-> hint,
     transport_auth |-> FALSE, transport_rate |-> FALSE]

Response(status_code, header) == [status_code |-> status_code, retry_after |-> header]

NoFailure == Failure(None, <<>>, <<>>)

\* No function is called on its own.
NoFunctionCall ==
    /\ input = [function |-> None]
    /\ output = None
    /\ fpc = "idle"

\* No retry loop runs.
NoRetryLoop ==
    /\ wrapper = None
    /\ max_retries = 0
    /\ base_delay = 0
    /\ max_delay = 0
    /\ backoff_factor = 0
    /\ since_last_request = 0
    /\ attempt = 0
    /\ invocations = 0
    /\ sleeps = <<>>
    /\ last_exception = NoFailure
    /\ wpc = "idle"
    /\ returned = None
    /\ thrown = NoFailure
    /\ failures = 0
    /\ call_raised = NoFailure
    /\ raises = <<>>
    /\ only_rate_limits = TRUE

\* A run of publish_to_all_platforms(post_content).
Init ==
    /\ caller = "publish"
    /\ post_content \in Items
    /\ platform_clients \in ClientMaps
    /\ articles \in [Platforms -> Stores]
    /\ \A p \in Platforms \ ToSet(platform_clients) : articles[p] = <<>>
    /\ Len(platform_clients) > 1 => \A p \in Platforms : articles[p] \in SmallStores
    /\ articles_before = articles
    /\ calls = [p \in Platforms |-> <<>>]
    /\ results = <<>>
    /\ pc = "lookup"
    /\ idx = 1
    /\ article_id = None
    /\ is_published = FALSE
    /\ raised = NoException
    /\ needs_update = FALSE
    /\ NoRetryLoop
    /\ NoFunctionCall

\* client.find_article_by_title(post_content.title)
Lookup ==
    /\ pc = "lookup"
    /\ \E e \in ClientOutcomes :
         LET found == find_article_by_title(articles[Platform], post_content.title)
         IN  /\ Called([op |-> "find_article_by_title", title |-> post_content.title,
                        exc |-> e,
                        ret |-> IF e = NoException THEN found.article_id ELSE None])
             /\ IF e /= NoException
                THEN Raise(e)
                ELSE IF caller = "status"
                THEN IF Truthy(found.article_id)
                     THEN /\ article_id' = found.article_id
                          /\ is_published' = found.is_published
                          /\ pc' = "fetch_published"
                          /\ UNCHANGED <<results, idx, raised, needs_update>>
                     ELSE Record(StatusEntry(Platform, FALSE, None, FALSE, FALSE, <<>>),
                                 NextPlatform(idx, Len(platform_clients)))
                ELSE /\ article_id' = found.article_id
                     /\ is_published' = found.is_published
                     /\ pc' = AfterLookup(found.article_id)
                     /\ UNCHANGED <<results, idx, raised, needs_update>>
             /\ post_content' = IF e = NoException /\ caller = "publish"
                                THEN ItemAfterPayload(post_content, Platform)
                                ELSE post_content
    /\ UNCHANGED <<caller, platform_clients, articles, articles_before>>
    /\ UNCHANGED <<retry_vars, function_vars>>

\* client.publish_article(content_dict, not post_content.save_as_draft)
Create ==
    /\ pc = "create"
    /\ \E e \in ClientOutcomes :
         LET r == publish_article(articles[Platform],
                                  ContentDict(post_content, Platform),
                                  PublishedArgument(post_content))
         IN  /\ Called([op |-> "publish_article",
                        content_dict |-> ContentDict(post_content, Platform),
                        published |-> PublishedArgument(post_content),
                        exc |-> e,
                        ret |-> IF e = NoException THEN r.response.id ELSE None])
             /\ IF e /= NoException
                THEN Raise(e) /\ UNCHANGED articles
                ELSE /\ articles' = [articles EXCEPT ![Platform] = r.store]
                     /\ Record(PublicationResult(Platform, TRUE, "created",
                                                 r.response.id, <<>>),
                               NextPlatform(idx, Len(platform_clients)))
    /\ UNCHANGED <<caller, post_content, platform_clients, articles_before>>
    /\ UNCHANGED <<retry_vars, function_vars>>

\* client.get_article(article_id, True), the first fetch of _needs_update.
\* The client answers from its store, or finds nothing.
FetchPublished ==
    /\ pc = "fetch_published"
    /\ \E e \in ClientOutcomes,
          found \in {get_article(articles[Platform], article_id, TRUE), <<>>} :
         LET existing == IF e = NoException THEN found ELSE <<>>
         IN  /\ Called([op |-> "get_article", article_id |-> article_id,
                        published |-> TRUE, exc |-> e, ret |-> existing])
             /\ Fetched(e, existing,
                        /\ pc' = "fetch_draft"
                        /\ UNCHANGED <<results, idx, article_id, is_published, raised, needs_update>>)
    /\ UNCHANGED <<caller, post_content, platform_clients, articles, articles_before>>
    /\ UNCHANGED <<retry_vars, function_vars>>

\* client.get_article(article_id, False), the second fetch of _needs_update.
FetchDraft ==
    /\ pc = "fetch_draft"
    /\ \E e \in ClientOutcomes,
          found \in {get_article(articles[Platform], article_id, FALSE), <<>>} :
         LET existing == IF e = NoException THEN found ELSE <<>>
         IN  /\ Called([op |-> "get_article", article_id |-> article_id,
                        published |-> FALSE, exc |-> e, ret |-> existing])
             /\ Fetched(e, existing, Decide(NotRetrievable))
    /\ UNCHANGED <<caller, post_content, platform_clients, articles, articles_before>>
    /\ UNCHANGED <<retry_vars, function_vars>>

\* client.update_article(article_id, content_dict, not post_content.save_as_draft)
Update ==
    /\ pc = "update"
    /\ \E e \in ClientOutcomes :
         LET r == update_article(articles[Platform], article_id,
                                 ContentDict(post_content, Platform),
                                 PublishedArgument(post_content))
         IN  /\ Called([op |-> "update_article", article_id |-> article_id,
                        content_dict |-> ContentDict(post_content, Platform),
                        published |-> PublishedArgument(post_content),
                        exc |-> e,
                        ret |-> IF e = NoException THEN r.response.id ELSE None])
             /\ IF e /= NoException
                THEN Raise(e) /\ UNCHANGED articles
                ELSE /\ articles' = [articles EXCEPT ![Platform] = r.store]
                     /\ Record(PublicationResult(Platform, TRUE, "updated",
                                                 article_id, <<>>),
                               NextPlatform(idx, Len(platform_clients)))
    /\ UNCHANGED <<caller, post_content, platform_clients, articles_before>>
    /\ UNCHANGED <<retry_vars, function_vars>>

\* The partial-failure summary is logged and the results are returned.
Summary ==
    /\ pc = "summary"
    /\ pc' = "done"
    /\ UNCHANGED <<caller, post_content, platform_clients, articles, articles_before,
                   calls, results, idx, article_id, is_published, raised, needs_update>>
    /\ UNCHANGED <<retry_vars, function_vars>>

Next ==
    \/ Lookup
    \/ Create
    \/ FetchPublished
    \/ FetchDraft
    \/ Update
    \/ Summary

Spec == Init /\ [][Next]_vars

\* A direct call of _needs_update(post_content, article_id, client, platform)
\* on one client, as the repository's change-detection test makes it.
InitNeedsUpdate ==
    /\ caller = "needs_update"
    /\ post_content \in Items
    /\ platform_clients \in {<<p>> : p \in Platforms}
    /\ articles \in [Platforms -> Stores]
    /\ \A p \in Platforms \ ToSet(platform_clients) : articles[p] = <<>>
    /\ articles_before = articles
    /\ calls = [p \in Platforms |-> <<>>]
    /\ results = <<>>
    /\ pc = "fetch_published"
    /\ idx = 1
    /\ article_id \in {IdOf(1), IdOf(2)}
    /\ is_published = FALSE
    /\ raised = NoException
    /\ needs_update = FALSE
    /\ NoRetryLoop
    /\ NoFunctionCall

NextNeedsUpdate ==
    \/ FetchPublished
    \/ FetchDraft

SpecNeedsUpdate == InitNeedsUpdate /\ [][NextNeedsUpdate]_vars

\* A run of get_platform_status(post_content).
InitStatus ==
    /\ caller = "status"
    /\ post_content \in Items
    /\ platform_clients \in ClientMaps
    /\ articles \in [Platforms -> Stores]
    /\ \A p \in Platforms \ ToSet(platform_clients) : articles[p] = <<>>
    /\ Len(platform_clients) > 1 => \A p \in Platforms : articles[p] \in SmallStores
    /\ articles_before = articles
    /\ calls = [p \in Platforms |-> <<>>]
    /\ results = <<>>
    /\ pc = "lookup"
    /\ idx = 1
    /\ article_id = None
    /\ is_published = FALSE
    /\ raised = NoException
    /\ needs_update = FALSE
    /\ NoRetryLoop
    /\ NoFunctionCall

NextStatus ==
    \/ Lookup
    \/ FetchPublished
    \/ FetchDraft

SpecStatus == InitStatus /\ [][NextStatus]_vars

\* get_articles of the mock client: every stored article.
get_articles(store) == store

\* One entry of the dict validate_platform_clients returns.
ValidationResult(platform, valid) == [platform |-> platform, valid |-> valid]

ValidateHandlerClassifiedOnly(e) ==
    IF e.kind = "AuthenticationError" THEN "authentication"
    ELSE IF e.kind \in {"RateLimitError", "APIError"} THEN "api"
    ELSE "none"

\* The except clauses of validate_platform_clients.
ValidateHandler(e) ==
    IF e.kind = "AuthenticationError" THEN "authentication"
    ELSE IF e.kind \in {"RateLimitError", "APIError"} THEN "api"
    ELSE IF e.kind \in ExceptionKinds THEN "unexpected"
    ELSE "none"

\* A run of validate_platform_clients().
InitValidate ==
    /\ caller = "validate"
    /\ post_content \in {i \in Items : ~i.save_as_draft /\ ~i.enable_toc}
    /\ platform_clients \in ClientMaps
    /\ articles \in [Platforms -> SmallStores]
    /\ \A p \in Platforms \ ToSet(platform_clients) : articles[p] = <<>>
    /\ articles_before = articles
    /\ calls = [p \in Platforms |-> <<>>]
    /\ results = <<>>
    /\ pc = "validate"
    /\ idx = 1
    /\ article_id = None
    /\ is_published = FALSE
    /\ raised = NoException
    /\ needs_update = FALSE
    /\ NoRetryLoop
    /\ NoFunctionCall

\* client.get_articles() for the next platform, and its except clauses.
Validate ==
    /\ pc = "validate"
    /\ \E e \in CallOutcomes :
         /\ Called([op |-> "get_articles", exc |-> e,
                    ret |-> IF e = NoException THEN get_articles(articles[Platform])
                            ELSE <<>>])
         /\ IF e = NoException
            THEN Record(ValidationResult(Platform, TRUE),
                        NextPlatform(idx, Len(platform_clients)))
            ELSE IF ValidateHandler(e) /= "none"
            THEN Record(ValidationResult(Platform, FALSE),
                        NextPlatform(idx, Len(platform_clients)))
            ELSE /\ raised' = e
                 /\ pc' = "raised"
                 /\ UNCHANGED <<results, idx, article_id, is_published, needs_update>>
    /\ UNCHANGED <<caller, post_content, platform_clients, articles, articles_before>>
    /\ UNCHANGED <<retry_vars, function_vars>>

NextValidate == Validate

SpecValidate == InitValidate /\ [][NextValidate]_vars

\* ------------------------------------------------------------------------
\* Retry loops: with_retry_and_rate_limiting (utils/error_handler.py) and
\* HashnodeClient._run_query (client/hashnode_client.py)
\* ------------------------------------------------------------------------

\* The largest retry budget a decorator is given.
MaxRetriesBound == 3

\* No Retry-After header; a header that is no number; a header with number n.
NoHeader == [present |-> FALSE, numeric |-> FALSE, value |-> 0]
BadHeader == [present |-> TRUE, numeric |-> FALSE, value |-> 0]
NumericHeader(n) == [present |-> TRUE, numeric |-> TRUE, value |-> n]

RetryAfterHeaders == {NoHeader, BadHeader, NumericHeader(0), NumericHeader(2), NumericHeader(100)}

\* The exception classes of requests that derive from RequestException, which
\* defines the attribute response.
RequestsKinds == {"HTTPError", "ConnectionError", "Timeout", "RequestException"}

\* What the function a decorator wraps raises.
DecoratedFailures ==
    {Failure("RateLimitError", <<>>, h) : h \in {<<>>, <<5>>}}
        \cup {Failure(k, <<>>, <<>>) : k \in {"AuthenticationError", "APIError", "Exception"}}
        \cup {Failure(k, <<>>, <<>>) : k \in RequestsKinds}
        \cup {Failure("HTTPError", <<Response(429, h)>>, <<>>) : h \in RetryAfterHeaders}
        \cup {Failure("HTTPError", <<Response(500, NoHeader)>>, <<>>)}

\* What session.execute raises in _run_query.
TransportFailure(auth, rate) ==
    [kind |-> "TransportError", response |-> <<>>, hint |-> <<>>,
     transport_auth |-> auth, transport_rate |-> rate]

QueryFailures ==
    {TransportFailure(a, r) : a \in BOOLEAN, r \in BOOLEAN}
        \cup {Failure("Exception", <<>>, <<>>)}

\* What a retry loop raises that the wrapped call did not: the errors
\* _run_query builds, and the errors of the decorator's own handler.
Built(kind) == Failure(kind, <<>>, <<>>)

Min(a, b) == IF a <= b THEN a ELSE b

RECURSIVE Power(_, _)
Power(b, n) == IF n = 0 THEN 1 ELSE b * Power(b, n - 1)

BackoffUncapped(base, factor, n, cap) == base * Power(factor, n)

\* min(base_delay * (backoff_factor ** attempt), max_delay)
Backoff(base, factor, n, cap) == Min(base * Power(factor, n), cap)

\* The except clause of the decorator that takes e.
RetryClause(e) ==
    IF e.kind \in {"RateLimitError", "HTTPError"} THEN "rate_limit_or_http"
    ELSE IF e.kind \in {"ConnectionError", "Timeout", "RequestException"} THEN "network"
    ELSE "other"

ExhaustedOneEarly(n, budget) == n + 1 >= budget

\* if attempt == max_retries: break
Exhausted(n, budget) == n = budget

\* isinstance(e, RateLimitError) or (hasattr(e, "response") and
\* e.response.status_code == 429): "error" when e.response is None and the
\* attribute access raises AttributeError.
IsRateLimit(e) ==
    IF e.kind = "RateLimitError" THEN "yes"
    ELSE IF e.kind \notin RequestsKinds THEN "no"
    ELSE IF e.response = <<>> THEN "error"
    ELSE IF e.response[1].status_code = 429 THEN "yes"
    ELSE "no"

\* retry_after as the handler extracts it from the response headers: 0 for
\* None (no response attribute, no response, no header, or no number).
HeaderRetryAfter(e) ==
    IF e.kind \in RequestsKinds /\ e.response /= <<>>
           /\ e.response[1].retry_after.present /\ e.response[1].retry_after.numeric
    THEN e.response[1].retry_after.value
    ELSE 0

\* The delay the decorator sleeps before the next attempt.
RetryDelay(e, n, base, factor, cap) ==
    IF RetryClause(e) = "rate_limit_or_http" /\ IsRateLimit(e) = "yes"
           /\ HeaderRetryAfter(e) /= 0
    THEN [why |-> "retry_after", delay |-> Min(HeaderRetryAfter(e), cap)]
    ELSE [why |-> "backoff", delay |-> Backoff(base, factor, n, cap)]

\* A decorated function is called: with_retry_and_rate_limiting(max_retries,
\* base_delay, max_delay, backoff_factor)(func)().
InitDecorator ==
    /\ wrapper = "decorator"
    /\ max_retries \in 0..MaxRetriesBound
    /\ base_delay \in {1, 2}
    /\ max_delay \in {3, 60}
    /\ backoff_factor = 2
    /\ since_last_request = 0
    /\ wpc = "call"

\* HashnodeClient.max_retries and HashnodeClient.rate_limit_delay
HashnodeMaxRetries == 3
RateLimitDelay == 2

\* _run_query is called, since_last_request seconds after the last request.
InitRunQuery ==
    /\ wrapper = "run_query"
    /\ max_retries = HashnodeMaxRetries
    /\ base_delay = RateLimitDelay
    /\ max_delay = 0
    /\ backoff_factor = 2
    /\ since_last_request \in 0..3
    /\ wpc = "rate_limit"

\* No run of the coordinator.
NoCoordinator ==
    /\ caller = None
    /\ post_content \in {i \in Items : ~i.save_as_draft /\ ~i.enable_toc}
    /\ platform_clients = <<>>
    /\ articles = [p \in Platforms |-> <<>>]
    /\ articles_before = articles
    /\ calls = [p \in Platforms |-> <<>>]
    /\ results = <<>>
    /\ pc = "idle"
    /\ idx = 1
    /\ article_id = None
    /\ is_published = FALSE
    /\ raised = NoException
    /\ needs_update = FALSE

InitRetry ==
    /\ NoCoordinator
    /\ NoFunctionCall
    /\ InitDecorator \/ InitRunQuery
    /\ attempt = 0
    /\ invocations = 0
    /\ sleeps = <<>>
    /\ last_exception = NoFailure
    /\ returned = None
    /\ thrown = NoFailure
    /\ failures = 0
    /\ call_raised = NoFailure
    /\ raises = <<>>
    /\ only_rate_limits = TRUE

RetryParameters ==
    <<wrapper, max_retries, base_delay, max_delay, backoff_factor, since_last_request>>

\* The wrapped call is made and raises e.
Failed(e, rate_limit) ==
    /\ invocations' = invocations + 1
    /\ failures' = failures + 1
    /\ call_raised' = e
    /\ raises' = Append(raises, e)
    /\ only_rate_limits' = (only_rate_limits /\ rate_limit)

\* The loop ends by raising e.
Throw(e) ==
    /\ thrown' = e
    /\ wpc' = "raised"
    /\ UNCHANGED <<attempt, sleeps, returned>>

\* time.sleep(d.delay), then the next attempt.
SleepAndRetry(d) ==
    /\ sleeps' = Append(sleeps, d)
    /\ attempt' = attempt + 1
    /\ UNCHANGED <<wpc, thrown, returned>>

\* The wrapped call returns: so does the loop.
CallReturns ==
    /\ wpc = "call"
    /\ invocations' = invocations + 1
    /\ returned' = "success"
    /\ wpc' = "returned"
    /\ UNCHANGED <<attempt, sleeps, last_exception, thrown, failures, call_raised,
                   raises, only_rate_limits>>
    /\ UNCHANGED RetryParameters
    /\ UNCHANGED <<coordinator_vars, function_vars>>

\* The function the decorator wraps raises e: one pass through the except
\* clauses of the wrapper.
DecoratedCallRaises ==
    /\ wrapper = "decorator"
    /\ wpc = "call"
    /\ \E e \in DecoratedFailures :
         /\ Failed(e, RetryClause(e) = "rate_limit_or_http" /\ IsRateLimit(e) = "yes")
         /\ IF RetryClause(e) = "other"
            THEN Throw(e) /\ UNCHANGED last_exception
            ELSE /\ last_exception' = e
                 /\ IF Exhausted(attempt, max_retries)
                    THEN Throw(e)
                    ELSE IF RetryClause(e) = "rate_limit_or_http" /\ IsRateLimit(e) = "error"
                    THEN Throw(Built("AttributeError"))
                    ELSE SleepAndRetry(RetryDelay(e, attempt, base_delay,
                                                  backoff_factor, max_delay))
    /\ UNCHANGED RetryParameters
    /\ UNCHANGED <<coordinator_vars, function_vars>>

\* _rate_limit: sleep until rate_limit_delay has passed since the last request.
RateLimit ==
    /\ wrapper = "run_query"
    /\ wpc = "rate_limit"
    /\ sleeps' = IF since_last_request < RateLimitDelay
                 THEN Append(sleeps, [why |-> "rate_limit",
                                      delay |-> RateLimitDelay - since_last_request])
                 ELSE sleeps
    /\ wpc' = "call"
    /\ UNCHANGED <<attempt, invocations, last_exception, returned, thrown, failures,
                   call_raised, raises, only_rate_limits>>
    /\ UNCHANGED RetryParameters
    /\ UNCHANGED <<coordinator_vars, function_vars>>

QueryFailureKindRateLimitFirst(e) ==
    IF e.kind /= "TransportError" THEN "unexpected"
    ELSE IF e.transport_rate THEN "rate_limit"
    ELSE IF e.transport_auth THEN "authentication"
    ELSE "transport"

\* How _run_query classifies what session.execute raised.
QueryFailureKind(e) ==
    IF e.kind /= "TransportError" THEN "unexpected"
    ELSE IF e.transport_auth THEN "authentication"
    ELSE IF e.transport_rate THEN "rate_limit"
    ELSE "transport"

ExhaustedErrorAlwaysAPIError(kind) == "APIError"

\* What _run_query raises once the retries are used up: RateLimitError from the
\* rate-limit branch, APIError after the loop for any other transport error.
ExhaustedError(kind) == IF kind = "rate_limit" THEN "RateLimitError" ELSE "APIError"

\* session.execute raises e in _run_query: one pass through its except clauses.
QueryRaises ==
    /\ wrapper = "run_query"
    /\ wpc = "call"
    /\ \E e \in QueryFailures :
         /\ Failed(e, QueryFailureKind(e) = "rate_limit")
         /\ last_exception' = e
         /\ CASE QueryFailureKind(e) = "unexpected" -> Throw(Built("APIError"))
              [] QueryFailureKind(e) = "authentication" -> Throw(Built("AuthenticationError"))
              [] QueryFailureKind(e) = "rate_limit" ->
                    IF attempt < max_retries
                    THEN SleepAndRetry([why |-> "rate_limit_backoff",
                                        delay |-> RateLimitDelay * Power(2, attempt)])
                    ELSE Throw(Built(ExhaustedError("rate_limit")))
              [] QueryFailureKind(e) = "transport" ->
                    IF attempt < max_retries
                    THEN SleepAndRetry([why |-> "backoff", delay |-> 2 * Power(2, attempt)])
                    ELSE Throw(Built(ExhaustedError("transport")))
    /\ UNCHANGED RetryParameters
    /\ UNCHANGED <<coordinator_vars, function_vars>>

NextRetry ==
    \/ CallReturns
    \/ DecoratedCallRaises
    \/ RateLimit
    \/ QueryRaises

SpecRetry == InitRetry /\ [][NextRetry]_vars


\* ------------------------------------------------------------------------
\* handle_api_response (utils/error_handler.py)
\* ------------------------------------------------------------------------

\* A parsed JSON body: the values of its keys "error" and "message", <<>> for
\* a key it does not hold.
JsonObject(error, message) == [error |-> error, message |-> message]

\* A response body: its text, and what response.json() parses from it, <<>>
\* when that raises.
ResponseBody(text, json) == [text |-> text, json |-> json]

ResponseBodies ==
    { ResponseBody("{id}", <<JsonObject(<<>>, <<>>)>>),
      ResponseBody("{error}", <<JsonObject(<<"bad key">>, <<>>)>>),
      ResponseBody("{message}", <<JsonObject(<<>>, <<"try later">>)>>),
      ResponseBody("<html>", <<>>),
      ResponseBody("", <<>>) }

StatusCodes == {200, 201, 302, 400, 401, 403, 404, 429, 500, 503}

\* requests.Response: status_code, the body and the Retry-After header.
ApiResponses ==
    [status_code : StatusCodes, body : ResponseBodies, retry_after : RetryAfterHeaders]

RaisesForStatusServerOnly(status_code) == status_code >= 500 /\ status_code < 600

\* response.raise_for_status() raises HTTPError.
RaisesForStatus(status_code) == status_code >= 400 /\ status_code < 600

\* What handle_api_response does: it returns value, or raises an exception of
\* kind with the message (the strings it is concatenated from) and the
\* attributes of PublishingError.
ApiReturns(value) ==
    [outcome |-> "returned", value |-> value, kind |-> None, message |-> <<>>,
     platform |-> None, article_title |-> None, error_code |-> None,
     retry_after |-> <<>>]

ApiRaises(kind, message, platform, article_title, error_code, retry_after) ==
    [outcome |-> "raised", value |-> <<>>, kind |-> kind, message |-> message,
     platform |-> platform, article_title |-> article_title,
     error_code |-> error_code, retry_after |-> retry_after]

\* The detail an error message gets from the body: the value of one of keys
\* when the body parses and holds it, the text (at most limit characters, which
\* the texts here are) when it does not parse, nothing when the text is empty.
ErrorDetail(body, separator, try_message) ==
    IF body.text = "" THEN <<>>
    ELSE IF body.json = <<>> THEN <<separator, body.text>>
    ELSE IF body.json[1].error /= <<>> THEN <<separator, body.json[1].error[1]>>
    ELSE IF try_message /\ body.json[1].message /= <<>>
    THEN <<separator, body.json[1].message[1]>>
    ELSE <<>>

\* retry_seconds: int(Retry-After) when the header is there and a number.
RetrySeconds(header) ==
    IF header.present /\ header.numeric THEN <<header.value>> ELSE <<>>

handle_api_response(response, platform, operation, article_title) ==
    IF ~RaisesForStatus(response.status_code)
    THEN IF response.body.json /= <<>>
         THEN ApiReturns(response.body.json)
         ELSE ApiRaises("APIError", <<"Invalid JSON response from ", platform>>,
                        platform, article_title, None, <<>>)
    ELSE IF response.status_code \in {401, 403}
    THEN ApiRaises("AuthenticationError",
                   <<"Authentication failed for ", platform>>
                       \o ErrorDetail(response.body, ": ", FALSE),
                   platform, article_title, ToString(response.status_code), <<>>)
    ELSE IF response.status_code = 429
    THEN ApiRaises("RateLimitError", <<"Rate limit exceeded on ", platform>>,
                   platform, article_title, None, RetrySeconds(response.retry_after))
    ELSE ApiRaises("APIError",
                   <<"API error on ", platform, ": ", ToString(response.status_code)>>
                       \o ErrorDetail(response.body, " - ", TRUE),
                   platform, article_title, ToString(response.status_code), <<>>)

\* handle_api_response(response, platform, operation, article_title) is called.
InitResponse ==
    /\ NoCoordinator
    /\ NoRetryLoop
    /\ input \in [function : {"handle_api_response"}, response : ApiResponses,
                  platform : Platforms, operation : {"publish"},
                  article_title : {"T", "U"}]
    /\ output = None
    /\ fpc = "call"

HandleApiResponse ==
    /\ fpc = "call"
    /\ input.function = "handle_api_response"
    /\ output' = handle_api_response(input.response, input.platform, input.operation,
                                     input.article_title)
    /\ fpc' = "done"
    /\ UNCHANGED input
    /\ UNCHANGED <<coordinator_vars, retry_vars>>

NextResponse == HandleApiResponse

SpecResponse == InitResponse /\ [][NextResponse]_vars

\* ------------------------------------------------------------------------
\* normalize_content_for_comparison called on its own
\* ------------------------------------------------------------------------

\* The most pieces a text is put together from.
MaxPieces == 4

\* The pieces texts are put together from: a letter, whitespace, an align
\* attribute, the two halves of one, and the delimiters of front matter.
TextPieces ==
    { <<"x">>, <<" ">>, <<"\n">>,
      AlignOpen \o <<"c">> \o Quote,
      <<"a", "l">>,
      <<"i", "g", "n", "=", "\"", "y", "\"">>,
      FrontmatterOpen,
      FrontmatterClose }

\* Every text of at most n pieces.
RECURSIVE Texts(_)
Texts(n) ==
    IF n = 0 THEN {<<>>}
    ELSE Texts(n - 1) \cup {t \o piece : t \in Texts(n - 1), piece \in TextPieces}

\* The metadata of a front-matter block: empty, one line, two lines, and one
\* whose last line is a delimiter line.
Metadatas ==
    { <<>>,
      <<"t", ":", " ", "x">>,
      <<"t", ":", "x", "\n", "c", ":", "y">>,
      <<"t", "\n", "-", "-", "-">> }

\* The text normalize_content_for_comparison is called with: the body, after
\* a front-matter block when there is metadata (<<>> for none, else <<m>>).
ContentOf(metadata, body) ==
    IF metadata = <<>> THEN body
    ELSE FrontmatterOpen \o metadata[1] \o FrontmatterClose \o body

\* normalize_content_for_comparison(content) is called, and called again with
\* what it returned.
InitNormalize ==
    /\ NoCoordinator
    /\ NoRetryLoop
    /\ input \in [function : {"normalize_content_for_comparison"},
                  metadata : {<<>>} \cup {<<m>> : m \in Metadatas},
                  body : Texts(MaxPieces)]
    /\ output = None
    /\ fpc = "call"

Normalize ==
    /\ fpc = "call"
    /\ input.function = "normalize_content_for_comparison"
    /\ LET once == normalize_content_for_comparison(ContentOf(input.metadata, input.body))
       IN  output' = [once |-> once, twice |-> normalize_content_for_comparison(once)]
    /\ fpc' = "done"
    /\ UNCHANGED input
    /\ UNCHANGED <<coordinator_vars, retry_vars>>

NextNormalize == Normalize

SpecNormalize == InitNormalize /\ [][NextNormalize]_vars

\* ------------------------------------------------------------------------
\* The tag comparison of _needs_update, on an article that was fetched
\* ------------------------------------------------------------------------

MaxTags == 2

\* The tag lists of at most n tags.
RECURSIVE TagLists(_)
TagLists(n) ==
    IF n = 0 THEN {<<>>}
    ELSE TagLists(n - 1)
         \cup {Append(l, t) : l \in {k \in TagLists(n - 1) : Len(k) = n - 1},
                              t \in {TagX, TagY}}

\* sep.join(parts)
RECURSIVE JoinWith(_, _)
JoinWith(parts, sep) ==
    IF parts = <<>> THEN <<>>
    ELSE IF Len(parts) = 1 THEN parts[1]
    ELSE parts[1] \o sep \o JoinWith(Tail(parts), sep)

\* The forms in which a platform returns the tags of an article: a list, or
\* a string of the tags separated by commas, with or without blanks.
TagForms == {"list", "comma", "comma_blank", "blank_comma_blank"}

RemoteTags(l, form) ==
    IF form = "list" THEN ListTags(l)
    ELSE IF form = "comma" THEN StrTags(JoinWith(l, <<",">>))
    ELSE IF form = "comma_blank" THEN StrTags(JoinWith(l, <<",", " ">>))
    ELSE StrTags(<<" ">> \o JoinWith(l, <<" ", ",", " ">>))

\* The item with the tags l, and the article a faithful platform holds for
\* it, with the given tags and cover.
TaggedItem(l, draft) ==
    [title |-> "T", body_markdown |-> BodyPlain, tags |-> l, cover |-> "img",
     save_as_draft |-> draft, enable_toc |-> FALSE, canonical_url |-> "https://d/s"]

TaggedArticle(tags, draft, cover) ==
    [title |-> "T", body_markdown |-> BodyPlain, tags |-> tags,
     published |-> ~draft, cover_image |-> cover]

\* _needs_update is called for an item and a fetched article, and again with
\* the item's tags and with the article's tags replaced by the variant.
InitTags ==
    /\ NoCoordinator
    /\ NoRetryLoop
    /\ input \in [function : {"_needs_update"},
                  tags : TagLists(MaxTags),
                  remote : TagLists(MaxTags),
                  form : TagForms,
                  variant : TagLists(MaxTags),
                  variant_form : TagForms,
                  save_as_draft : BOOLEAN,
                  cover_image : {"img", ""}]
    /\ output = None
    /\ fpc = "call"

CompareTags ==
    /\ fpc = "call"
    /\ input.function = "_needs_update"
    /\ LET existing(l, form) ==
               TaggedArticle(RemoteTags(l, form), input.save_as_draft, input.cover_image)
       IN  output' =
               [base |-> changes_detected(TaggedItem(input.tags, input.save_as_draft),
                                          existing(input.remote, input.form)),
                item_varied |-> changes_detected(TaggedItem(input.variant, input.save_as_draft),
                                                 existing(input.remote, input.form)),
                remote_varied |-> changes_detected(TaggedItem(input.tags, input.save_as_draft),
                                                   existing(input.variant, input.variant_form))]
    /\ fpc' = "done"
    /\ UNCHANGED input
    /\ UNCHANGED <<coordinator_vars, retry_vars>>

NextTags == CompareTags

SpecTags == InitTags /\ [][NextTags]_vars

\* ------------------------------------------------------------------------
\* Tag conversion (ContentProcessor.convert_tags_for_platform) and the tag
\* objects the Hashnode client builds from the converted tags
\* ------------------------------------------------------------------------

MaxTagLen == 4
MaxTagCount == 6

\* The characters tags are drawn from: letters of both cases, a digit, a
\* blank, a hyphen, and characters of no class of the sanitizing patterns.
TagAlphabet == {"C", "b", "1", " ", "-", "+", "_"}

\* The tags of at most n characters.
RECURSIVE TagsOfLen(_)
TagsOfLen(n) ==
    IF n = 0 THEN {<<>>}
    ELSE TagsOfLen(n - 1)
         \cup {Append(t, c) : t \in {u \in TagsOfLen(n - 1) : Len(u) = n - 1},
                              c \in TagAlphabet}

\* ["C++", "Node.js", "Web Development"]
SpecialTags ==
    << <<"C", "+", "+">>,
       <<"N", "o", "d", "e", ".", "j", "s">>,
       <<"W", "e", "b", " ", "D", "e", "v", "e", "l", "o", "p", "m", "e", "n", "t">> >>

\* ["a", "b", ...]: n one-letter tags.
LetterTags(n) == [i \in 1..n |-> <<LowerChars[i]>>]

\* The tag lists handed to convert_tags_for_platform: one tag, two short
\* tags, the three special tags, up to MaxTagCount one-letter tags, and the
\* same as one comma-separated tag.
TagInputs ==
    {<<t>> : t \in TagsOfLen(MaxTagLen)}
        \cup {<<t, u>> : t, u \in TagsOfLen(1)}
        \cup {SpecialTags}
        \cup {LetterTags(n) : n \in 0..MaxTagCount}
        \cup {<<JoinWith(LetterTags(n), <<",", " ">>)>> : n \in 2..MaxTagCount}

\* str.replace(old, new) for one-character strings
ReplaceChar(s, old, new) == [i \in 1..Len(s) |-> IF s[i] = old THEN new ELSE s[i]]

\* seq[:n]
Take(seq, n) == SubSeq(seq, 1, Min(n, Len(seq)))

TagObjectsUncapped(tags) ==
    [i \in 1..Len(StripNonEmpty(SplitComma(tags))) |->
        LET tag == StripNonEmpty(SplitComma(tags))[i]
        IN  [name |-> tag, slug |-> ReplaceChar(ReplaceChar(Lower(tag), " ", "-"), "_", "-")]]

HashnodeMaxTags == 5

\* tag_objects of HashnodeClient.publish_article and update_article, for the
\* comma-separated tags of the payload's frontmatterData.
TagObjects(tags) ==
    LET listed == Take(StripNonEmpty(SplitComma(tags)), HashnodeMaxTags)
    IN  [i \in 1..Len(listed) |->
            [name |-> listed[i],
             slug |-> ReplaceChar(ReplaceChar(Lower(listed[i]), " ", "-"), "_", "-")]]

InitConvert ==
    /\ NoCoordinator
    /\ NoRetryLoop
    /\ input \in [function : {"convert_tags_for_platform"},
                  tags : TagInputs,
                  platform : {"hashnode", "devto", "medium"}]
    /\ output = None
    /\ fpc = "call"

\* tags of DevToClient.publish_article and update_article, for the
\* comma-separated tags of the payload's frontmatterData: tags.split(",").
DevToTags(tags) == SplitComma(tags)

\* platform_tags = convert_tags_for_platform(tags, platform); for Hashnode
\* the client then builds its tag objects from ",".join(platform_tags), for
\* dev.to the client splits the joined string again.
ConvertTags ==
    /\ fpc = "call"
    /\ input.function = "convert_tags_for_platform"
    /\ LET platform_tags == convert_tags_for_platform(input.tags, input.platform)
       IN  output' = [tags |-> platform_tags,
                      tag_objects |-> IF input.platform = "hashnode"
                                      THEN TagObjects(JoinComma(platform_tags))
                                      ELSE <<>>,
                      devto_tags |-> IF input.platform = "devto"
                                     THEN DevToTags(JoinComma(platform_tags))
                                     ELSE <<>>]
    /\ fpc' = "done"
    /\ UNCHANGED input
    /\ UNCHANGED <<coordinator_vars, retry_vars>>

NextConvert == ConvertTags

SpecConvert == InitConvert /\ [][NextConvert]_vars

\* ------------------------------------------------------------------------
\* PostPublisher (main.py): construction
\* ------------------------------------------------------------------------

MaxPlatforms == 2

\* The platform names as they are written in ENABLED_PLATFORMS or passed to
\* the constructor.
RawNames == {"devto", "Hashnode ", "medium"}

\* p.strip().lower()
CleanName(raw) == IF raw = "Hashnode " THEN "hashnode" ELSE raw

\* The lists of at most n raw names.
RECURSIVE NameLists(_)
NameLists(n) ==
    IF n = 0 THEN {<<>>}
    ELSE NameLists(n - 1)
         \cup {Append(l, r) : l \in {k \in NameLists(n - 1) : Len(k) = n - 1},
                              r \in RawNames}

\* The values of RATE_LIMIT_DELAY: unset, a number, and a text that is none.
RateLimitDelays == {None, "5", "fast"}

\* What a client constructor does: it returns the client or raises.
ConstructorOutcomes == {"client", "AuthenticationError", "Exception"}

\* int(os.environ.get("RATE_LIMIT_DELAY", "5")) raises ValueError for a text
\* that is no integer.
IntRaises(text) == text \notin {None, "5"}

\* _load_configuration: the enabled platforms, cleaned; raised tells whether
\* the conversion of the delay raised.
_load_configuration(env) ==
    [raised |-> IntRaises(env.rate_limit_delay),
     enabled_platforms |-> [i \in 1..Len(env.enabled_platforms) |->
                               CleanName(env.enabled_platforms[i])]]

\* HasCredentials asking Hashnode for its API key only.
HasCredentialsKeyOnly(platform, env) ==
    IF platform = "devto" THEN env.devto_api_key ELSE env.hashnode_api_key

\* The environment holds what the platform's branch asks for.
HasCredentials(platform, env) ==
    IF platform = "devto" THEN env.devto_api_key
    ELSE env.hashnode_api_key /\ env.hashnode_username

\* clients[platform] = client: a key keeps the position it was first given.
Put(clients, platform) ==
    IF \E i \in 1..Len(clients) : clients[i] = platform THEN clients
    ELSE Append(clients, platform)

\* The loop of _initialize_platform_clients over the platforms left.
RECURSIVE InitializeClients(_, _, _)
InitializeClients(platforms, env, clients) ==
    IF platforms = <<>> THEN clients
    ELSE LET platform == CleanName(Head(platforms))
         IN  InitializeClients(
                 Tail(platforms), env,
                 IF /\ platform \in {"devto", "hashnode"}
                    /\ HasCredentials(platform, env)
                    /\ env.constructor[platform] = "client"
                 THEN Put(clients, platform)
                 ELSE clients)

NoClientsMessage == "No platform clients could be initialized"
IntMessage == "invalid literal for int()"

\* _initialize_platform_clients(enabled_platforms)
_initialize_platform_clients(enabled_platforms, config, env) ==
    LET platforms_to_enable ==
            IF enabled_platforms /= <<>> /\ enabled_platforms[1] /= <<>>
            THEN enabled_platforms[1] ELSE config.enabled_platforms
        clients == InitializeClients(platforms_to_enable, env, <<>>)
    IN  IF clients = <<>>
        THEN [raised |-> "ValueError", msg |-> NoClientsMessage, platform_clients |-> <<>>]
        ELSE [raised |-> None, msg |-> "", platform_clients |-> clients]

\* PostPublisher(enabled_platforms)
PostPublisher(enabled_platforms, env) ==
    LET config == _load_configuration(env)
    IN  IF config.raised
        THEN [raised |-> "ValueError", msg |-> IntMessage, platform_clients |-> <<>>]
        ELSE _initialize_platform_clients(enabled_platforms, config, env)

Environments ==
    [enabled_platforms : NameLists(MaxPlatforms),
     rate_limit_delay : RateLimitDelays,
     devto_api_key : BOOLEAN,
     hashnode_api_key : BOOLEAN,
     hashnode_username : BOOLEAN,
     constructor : [{"devto", "hashnode"} -> ConstructorOutcomes]]

\* The enabled_platforms argument: None, or a list.  Options are sequences of
\* length 0 or 1.
EnabledArguments ==
    {<<>>, << <<>> >>, << <<"medium">> >>, << <<"Hashnode ">> >>,
     << <<"devto", "devto">> >>, << <<"hashnode", "devto">> >>}

InitPublisher ==
    /\ NoCoordinator
    /\ NoRetryLoop
    /\ input \in [function : {"PostPublisher"},
                  enabled_platforms : EnabledArguments,
                  env : Environments]
    /\ output = None
    /\ fpc = "call"

Construct ==
    /\ fpc = "call"
    /\ input.function = "PostPublisher"
    /\ output' = PostPublisher(input.enabled_platforms, input.env)
    /\ fpc' = "done"
    /\ UNCHANGED input
    /\ UNCHANGED <<coordinator_vars, retry_vars>>

NextPublisher == Construct

SpecPublisher == InitPublisher /\ [][NextPublisher]_vars

\* ------------------------------------------------------------------------
\* PostPublisher.publish_to_all_platforms (main.py): one run over the
\* markdown files, each parsed and handed to the PublicationManager
\* ------------------------------------------------------------------------

MaxFiles == 2

TagUpper == <<"X">>

\* A markdown file: its front matter and body.  title is <<>> when the front
\* matter has no title, else the one-element sequence of the title.
Document(title, tags, enable_toc) ==
    [title |-> title, tags |-> tags, enableToc |-> enable_toc,
     saveAsDraft |-> FALSE, cover |-> "img", body |-> BodyPlain]

Documents ==
    {Document(<<>>, <<TagX, TagY>>, FALSE),
     Document(<<"">>, <<TagX, TagY>>, FALSE),
     Document(<<"T">>, <<TagX, TagY>>, FALSE),
     Document(<<"T">>, <<TagX, TagY>>, TRUE),
     Document(<<"U">>, <<TagUpper>>, FALSE)}

\* The lists of at most n files.
RECURSIVE FileLists(_)
FileLists(n) ==
    IF n = 0 THEN {<<>>}
    ELSE FileLists(n - 1)
         \cup {Append(l, d) : l \in {k \in FileLists(n - 1) : Len(k) = n - 1},
                              d \in Documents}

\* PostContent.from_frontmatter
from_frontmatter(doc) ==
    [title |-> doc.title[1],
     body_markdown |-> doc.body,
     tags |-> doc.tags,
     cover |-> doc.cover,
     save_as_draft |-> doc.saveAsDraft,
     enable_toc |-> doc.enableToc,
     canonical_url |-> "https://d/s"]

\* _parse_markdown_file rejecting a missing title only.
ParseAcceptsEmptyTitle(doc) ==
    IF doc.title = <<>> THEN <<>> ELSE << from_frontmatter(doc) >>

\* _parse_markdown_file: None (<<>>) when frontmatter_data.get("title") is
\* missing or empty, else the PostContent.
_parse_markdown_file(doc) ==
    IF doc.title = <<>> \/ doc.title[1] = "" THEN <<>> ELSE << from_frontmatter(doc) >>

\* The loop goes to the file after k, or ends.
NextFile(k) == IF k < Len(input.md_files) THEN "file" ELSE "done"

InitRun ==
    /\ caller = "publish"
    /\ post_content = None
    /\ platform_clients \in {<<"devto">>, <<"hashnode">>, <<"hashnode", "devto">>}
    /\ articles \in [Platforms -> {<<>>, <<OtherArticle>>}]
    /\ \A p \in Platforms \ ToSet(platform_clients) : articles[p] = <<>>
    /\ Len(platform_clients) > 1 => \A p \in Platforms : articles[p] = <<>>
    /\ articles_before = articles
    /\ calls = [p \in Platforms |-> <<>>]
    /\ results = <<>>
    /\ pc = "idle"
    /\ idx = 1
    /\ article_id = None
    /\ is_published = FALSE
    /\ raised = NoException
    /\ needs_update = FALSE
    /\ NoRetryLoop
    /\ input \in [function : {"publish_to_all_platforms"}, md_files : FileLists(MaxFiles)]
    /\ output = [file |-> 1, handled |-> <<>>]
    /\ fpc = IF input.md_files = <<>> THEN "done" ELSE "file"

\* post_content = self._parse_markdown_file(md_file): a file that gives None
\* is skipped, another is handed to
\* publication_manager.publish_to_all_platforms(post_content).
ParseFile ==
    /\ fpc = "file"
    /\ LET parsed == _parse_markdown_file(input.md_files[output.file])
       IN  IF parsed = <<>>
           THEN /\ output' = [output EXCEPT
                                 !.file = output.file + 1,
                                 !.handled = Append(output.handled,
                                                    [file |-> output.file,
                                                     published |-> FALSE,
                                                     calls_before |-> calls,
                                                     calls_after |-> calls,
                                                     results |-> <<>>])]
                /\ fpc' = NextFile(output.file)
                /\ UNCHANGED coordinator_vars
           ELSE /\ post_content' = parsed[1]
                /\ results' = <<>>
                /\ pc' = "lookup"
                /\ idx' = 1
                /\ article_id' = None
                /\ is_published' = FALSE
                /\ articles_before' = articles
                /\ output' = [output EXCEPT !.handled =
                                 Append(@, [file |-> output.file,
                                            published |-> TRUE,
                                            calls_before |-> calls,
                                            calls_after |-> calls,
                                            results |-> <<>>])]
                /\ fpc' = "publishing"
                /\ UNCHANGED <<platform_clients, articles, calls, raised, caller, needs_update>>
    /\ UNCHANGED input
    /\ UNCHANGED retry_vars

\* The results are returned to PostPublisher: _process_publication_results,
\* then the next file.
FinishFile ==
    /\ fpc = "publishing"
    /\ pc = "done"
    /\ output' = [output EXCEPT
                     !.file = output.file + 1,
                     !.handled = [output.handled EXCEPT ![Len(output.handled)] =
                                     [@ EXCEPT !.calls_after = calls, !.results = results]]]
    /\ fpc' = NextFile(output.file)
    /\ pc' = "idle"
    /\ UNCHANGED <<post_content, platform_clients, articles, calls, results, idx,
                   article_id, is_published, raised, caller, needs_update, articles_before>>
    /\ UNCHANGED input
    /\ UNCHANGED retry_vars

NextRun ==
    \/ ParseFile
    \/ Lookup
    \/ Create
    \/ FetchPublished
    \/ FetchDraft
    \/ Update
    \/ Summary
    \/ FinishFile

SpecRun == InitRun /\ [][NextRun]_vars

\* ------------------------------------------------------------------------
\* PostPublisher (main.py): publish_to_devto
\* ------------------------------------------------------------------------

\* RestrictedClients with every client kept.
RestrictedClientsKeepsAll(clients) == clients

\* {"devto": self.platform_clients["devto"]}
RestrictedClients(clients) == SelectSeq(clients, LAMBDA p : p = "devto")

\* A call of publish_to_devto() on a publisher whose clients are
\* input.platform_clients: output.platform_clients is self.platform_clients,
\* platform_clients the map of self.publication_manager.
InitDevto ==
    /\ caller = "publish"
    /\ post_content = None
    /\ platform_clients \in ClientMaps
    /\ articles \in [Platforms -> {<<>>, <<OtherArticle>>}]
    /\ \A p \in Platforms \ ToSet(platform_clients) : articles[p] = <<>>
    /\ articles_before = articles
    /\ calls = [p \in Platforms |-> <<>>]
    /\ results = <<>>
    /\ pc = "idle"
    /\ idx = 1
    /\ article_id = None
    /\ is_published = FALSE
    /\ raised = NoException
    /\ needs_update = FALSE
    /\ NoRetryLoop
    /\ input \in [function : {"publish_to_devto"}, md_files : FileLists(MaxFiles),
                  platform_clients : {platform_clients}]
    /\ output = [file |-> 1, handled |-> <<>>, platform_clients |-> platform_clients]
    /\ fpc = "restrict"

\* if "devto" in self.platform_clients: both maps are restricted and
\* publish_to_all_platforms starts; else the error is logged and the method
\* returns.
Restrict ==
    /\ fpc = "restrict"
    /\ IF "devto" \in ToSet(output.platform_clients)
       THEN /\ output' = [output EXCEPT
                             !.platform_clients = RestrictedClients(output.platform_clients)]
            /\ platform_clients' = RestrictedClients(output.platform_clients)
            /\ fpc' = IF input.md_files = <<>> THEN "done" ELSE "file"
       ELSE /\ fpc' = "returned"
            /\ UNCHANGED <<output, platform_clients>>
    /\ UNCHANGED <<caller, post_content, articles, articles_before, calls, results, pc,
                   idx, article_id, is_published, raised, needs_update>>
    /\ UNCHANGED input
    /\ UNCHANGED retry_vars

\* An exception leaves publish_to_all_platforms: one of
\* _get_list_of_markdown_files before the first file, or one that is no
\* Exception between two files.
Escape ==
    /\ fpc = "file"
    /\ input.function = "publish_to_devto"
    /\ fpc' = "escaped"
    /\ UNCHANGED <<input, output>>
    /\ UNCHANGED <<coordinator_vars, retry_vars>>

\* finally: both maps are set to original_clients, then the method returns or
\* the exception goes on.
Restore ==
    /\ fpc \in {"done", "escaped"}
    /\ input.function = "publish_to_devto"
    /\ output' = [output EXCEPT !.platform_clients = input.platform_clients]
    /\ platform_clients' = input.platform_clients
    /\ fpc' = IF fpc = "done" THEN "returned" ELSE "raised"
    /\ UNCHANGED <<caller, post_content, articles, articles_before, calls, results, pc,
                   idx, article_id, is_published, raised, needs_update>>
    /\ UNCHANGED input
    /\ UNCHANGED retry_vars

NextDevto ==
    \/ Restrict
    \/ ParseFile
    \/ Lookup
    \/ Create
    \/ FetchPublished
    \/ FetchDraft
    \/ Update
    \/ Summary
    \/ FinishFile
    \/ Escape
    \/ Restore

SpecDevto == InitDevto /\ [][NextDevto]_vars

\* ------------------------------------------------------------------------
\* Properties
\* ------------------------------------------------------------------------

Configured == ToSet(platform_clients)

Finished == pc \in {"done", "raised"}

ResultsFor(p) == {i \in 1..Len(results) : results[i].platform = p}

HasResult(p) == ResultsFor(p) /= {}

ResultOf(p) == results[CHOOSE i \in ResultsFor(p) : TRUE]

CallsOf(p, op) == {i \in 1..Len(calls[p]) : calls[p][i].op = op}

LastCall(p) == calls[p][Len(calls[p])]

\* Lookup returned for p: nothing, or an identifier.
LookupAbsent(p) ==
    \E i \in CallsOf(p, "find_article_by_title") :
        calls[p][i].exc = NoException /\ calls[p][i].ret = None

LookupFound(p) ==
    \E i \in CallsOf(p, "find_article_by_title") :
        calls[p][i].exc = NoException /\ calls[p][i].ret /= None

\* The identifier lookup returned for p.
FoundId(p) ==
    calls[p][CHOOSE i \in CallsOf(p, "find_article_by_title") : TRUE].ret

\* A fetch of p raised an exception of one of Kinds.
FetchRaised(p, Kinds) ==
    \E i \in CallsOf(p, "get_article") : calls[p][i].exc.kind \in Kinds

\* A call of p other than a change-detection fetch raised, or a fetch raised
\* a classified failure.
RaisedOutsideAbsorbedFetch(p) ==
    \E i \in 1..Len(calls[p]) :
        /\ calls[p][i].exc /= NoException
        /\ calls[p][i].op = "get_article" => calls[p][i].exc.kind \in Classified

RaisedAnywhere(p) == \E i \in 1..Len(calls[p]) : calls[p][i].exc /= NoException

\* The five comparisons of change detection, on the fields themselves.
TitleDiffers(a) == a.title /= post_content.title

BodyDiffers(a) ==
    normalize_content_for_comparison(a.body_markdown)
        /= normalize_content_for_comparison(post_content.body_markdown)

TagsDiffer(a) ==
    {a.tags.val[i] : i \in 1..Len(a.tags.val)}
        /= {post_content.tags[i] : i \in 1..Len(post_content.tags)}

PublishedDiffers(a) == a.published /= ~post_content.save_as_draft

CoverDiffers(a) == a.cover_image /= post_content.cover

AnyDiffers(a) ==
    TitleDiffers(a) \/ BodyDiffers(a) \/ TagsDiffer(a) \/ PublishedDiffers(a)
        \/ CoverDiffers(a)

\* A fetch of p returned an article that equals the item in all five fields.
FetchedUnchanged(p) ==
    \E i \in CallsOf(p, "get_article") :
        /\ calls[p][i].exc = NoException
        /\ calls[p][i].ret /= <<>>
        /\ ~AnyDiffers(calls[p][i].ret[1])

\* Both fetches of p returned nothing.
BothFetchesEmpty(p) ==
    /\ Cardinality(CallsOf(p, "get_article")) = 2
    /\ \A i \in CallsOf(p, "get_article") :
           calls[p][i].exc = NoException /\ calls[p][i].ret = <<>>

\* The update of p is due (the coordinator is about to call update_article)
\* or was made, with the outcome that follows from what the call did.
UpdateDueOrMade(p) ==
    \/ /\ ~HasResult(p)
       /\ pc = "update"
       /\ Platform = p
       /\ CallsOf(p, "update_article") = {}
    \/ /\ HasResult(p)
       /\ Cardinality(CallsOf(p, "update_article")) = 1
       /\ LastCall(p).op = "update_article"
       /\ ResultOf(p).action = IF LastCall(p).exc = NoException THEN "updated" ELSE "error"

\* The outcome p's own calls determine, whatever the other platforms did.
OwnOutcome(p) ==
    LET c == LastCall(p)
    IN  IF c.exc /= NoException
        THEN PublicationResult(p, FALSE, "error", None,
                               IF c.exc.kind \in Classified THEN <<c.exc.msg>>
                               ELSE <<"Unexpected error: ", c.exc.msg>>)
        ELSE IF c.op = "publish_article"
        THEN PublicationResult(p, TRUE, "created", c.ret, <<>>)
        ELSE IF c.op = "update_article"
        THEN PublicationResult(p, TRUE, "updated", c.article_id, <<>>)
        ELSE PublicationResult(p, TRUE, "skipped", c.article_id, <<>>)

\* C1 as stated: when publish_to_all_platforms ends, no exception has left
\* it and every platform whose client raised at any step, the
\* change-detection fetch included, has an error outcome.
C1_AnyRaiseGivesError ==
    Finished =>
        /\ raised = NoException
        /\ \A p \in Configured :
               /\ HasResult(p)
               /\ RaisedAnywhere(p) =>
                      ResultOf(p).action = "error" /\ ~ResultOf(p).success

\* C1 amended: when publish_to_all_platforms ends, no exception has left it,
\* every platform has the one outcome its own client's calls determine, and
\* a platform whose client raised at lookup, create or update, or raised a
\* classified failure in a change-detection fetch, has an error outcome.
C1_FailureIsolation ==
    Finished =>
        /\ raised = NoException
        /\ \A p \in Configured :
               /\ Cardinality(ResultsFor(p)) = 1
               /\ ResultOf(p) = OwnOutcome(p)
               /\ RaisedOutsideAbsorbedFetch(p) =>
                      ResultOf(p).action = "error" /\ ~ResultOf(p).success

\* Two platforms were processed, the first one's client raised and has an
\* error outcome, the second one succeeded.
C1_Witness ==
    /\ pc = "done"
    /\ Len(platform_clients) = 2
    /\ RaisedOutsideAbsorbedFetch(platform_clients[1])
    /\ results[1].action = "error"
    /\ results[2].success

\* C2: when publish_to_all_platforms ends, the results list has one entry per
\* configured platform, in the order of the client map, each platform once.
C2_OneOutcomePerPlatform ==
    Finished =>
        /\ Len(results) = Len(platform_clients)
        /\ \A i \in 1..Len(results) : results[i].platform = platform_clients[i]
        /\ \A p \in Configured : Cardinality(ResultsFor(p)) = 1

\* A finished run over two platforms with an error outcome followed by a
\* skipped one.
C2_Witness ==
    /\ pc = "done"
    /\ Len(results) = 2
    /\ results[1].action = "error"
    /\ results[2].action = "skipped"

\* C3: a platform on which lookup found nothing never receives update_article
\* and its outcome is created or error.
C3_AbsentCreatesOrFails ==
    \A p \in Configured :
        LookupAbsent(p) =>
            /\ CallsOf(p, "update_article") = {}
            /\ HasResult(p) => ResultOf(p).action \in {"created", "error"}

\* Lookup found nothing on a platform and its article was created.
C3_Witness ==
    \E p \in Configured :
        LookupAbsent(p) /\ HasResult(p) /\ ResultOf(p).action = "created"

\* C4: a platform on which lookup found the article never receives
\* publish_article and its outcome is updated, skipped or error.
C4_PresentNeverCreates ==
    \A p \in Configured :
        LookupFound(p) =>
            /\ CallsOf(p, "publish_article") = {}
            /\ HasResult(p) => ResultOf(p).action \in {"updated", "skipped", "error"}

\* Lookup found the article on a platform and it was updated.
C4_Witness ==
    \E p \in Configured :
        LookupFound(p) /\ HasResult(p) /\ ResultOf(p).action = "updated"

\* C5: when lookup found the article and a fetch returned an article equal to
\* the item in all five compared fields, the outcome is skipped, successful,
\* with the identifier lookup returned; neither update_article nor
\* publish_article was called and the platform stores what it stored before.
C5_UnchangedIsSkipped ==
    \A p \in Configured :
        (LookupFound(p) /\ FetchedUnchanged(p)) =>
            /\ HasResult(p)
            /\ ResultOf(p) = PublicationResult(p, TRUE, "skipped", FoundId(p), <<>>)
            /\ CallsOf(p, "update_article") = {}
            /\ CallsOf(p, "publish_article") = {}
            /\ articles[p] = articles_before[p]

\* An article whose raw body differs from the item's but is equal after
\* normalisation was fetched and the platform was skipped.
C5_Witness ==
    \E p \in Configured :
        /\ LookupFound(p)
        /\ FetchedUnchanged(p)
        /\ LastCall(p).ret[1].body_markdown /= post_content.body_markdown
        /\ HasResult(p)
        /\ ResultOf(p).action = "skipped"

\* C6: when _needs_update returns after a fetch that returned an article, it
\* returns true exactly when the title, the normalised body, the tag set, the
\* published flag or the cover differs.
C6_ChangeDetectionIsOr ==
    \A p \in Configured :
        (pc = "returned" /\ LastCall(p).exc = NoException /\ LastCall(p).ret /= <<>>) =>
            needs_update = AnyDiffers(LastCall(p).ret[1])

\* _needs_update returned true for an article of which only the cover
\* differs from the item's.
C6_Witness ==
    \E p \in Configured :
        /\ pc = "returned"
        /\ LastCall(p).exc = NoException
        /\ LastCall(p).ret /= <<>>
        /\ CoverDiffers(LastCall(p).ret[1])
        /\ ~TitleDiffers(LastCall(p).ret[1])
        /\ ~BodyDiffers(LastCall(p).ret[1])
        /\ ~TagsDiffer(LastCall(p).ret[1])
        /\ ~PublishedDiffers(LastCall(p).ret[1])
        /\ needs_update

\* C7: when both fetches of change detection return nothing, the coordinator
\* goes on to call update_article, once, and the outcome is updated (error if
\* update_article itself raises), never skipped.
C7_FailOpen ==
    \A p \in Configured : BothFetchesEmpty(p) => UpdateDueOrMade(p)

\* Both fetches returned nothing and the article was updated.
C7_Witness ==
    \E p \in Configured :
        BothFetchesEmpty(p) /\ HasResult(p) /\ ResultOf(p).action = "updated"

\* C8 as stated: when a change-detection fetch raised an exception of any
\* kind, update_article is not called and the outcome is error.
C8_AnyFetchErrorGivesError ==
    \A p \in Configured :
        FetchRaised(p, ExceptionKinds) =>
            /\ CallsOf(p, "update_article") = {}
            /\ HasResult(p) => ResultOf(p).action = "error"

\* C8 amended: a classified failure of a change-detection fetch gives an
\* error outcome at once, without a call of update_article; any other
\* exception of the fetch is absorbed and the update is made.
C8_FetchErrors ==
    \A p \in Configured :
        /\ FetchRaised(p, Classified) =>
               /\ HasResult(p)
               /\ ResultOf(p).action = "error"
               /\ CallsOf(p, "update_article") = {}
        /\ FetchRaised(p, ExceptionKinds \ Classified) => UpdateDueOrMade(p)

\* One platform's fetch raised a classified failure and it has an error
\* outcome; the other's fetch raised a plain exception and it was updated.
C8_Witness ==
    \E p, q \in Configured :
        /\ FetchRaised(p, Classified)
        /\ ResultOf(p).action = "error"
        /\ FetchRaised(q, ExceptionKinds \ Classified)
        /\ HasResult(q)
        /\ ResultOf(q).action = "updated"

\* The wrapped call has raised an authentication failure: AuthenticationError
\* under the decorator, a transport error that tells of 401, 403 or
\* Unauthorized in _run_query.
AuthenticationFailed ==
    /\ failures >= 1
    /\ \/ wrapper = "decorator" /\ call_raised.kind = "AuthenticationError"
       \/ /\ wrapper = "run_query"
          /\ call_raised.kind = "TransportError"
          /\ call_raised.transport_auth

\* The sleeps of a retry: every sleep but the one of _rate_limit.
RetrySleeps == SelectSeq(sleeps, LAMBDA d : d.why /= "rate_limit")

\* C9: with_retry_and_rate_limiting(max_retries=N) invokes the wrapped function
\* at most N+1 times; when the function fails k <= N times with rate-limit
\* failures and then succeeds, the wrapper returns the success value after
\* exactly k+1 invocations; when every call raises a rate-limit failure, the
\* wrapper raises the last of these failures after exactly N+1 invocations.
C9_RetryBudget ==
    wrapper = "decorator" =>
        /\ invocations <= max_retries + 1
        /\ (wpc = "call" /\ only_rate_limits) =>
               /\ invocations = failures
               /\ failures <= max_retries
               /\ Len(sleeps) = failures
        /\ (wpc = "returned" /\ only_rate_limits) =>
               /\ returned = "success"
               /\ failures <= max_retries
               /\ invocations = failures + 1
        /\ (wpc = "raised" /\ only_rate_limits) =>
               /\ invocations = max_retries + 1
               /\ failures = max_retries + 1
               /\ thrown = call_raised
               /\ IsRateLimit(thrown) = "yes"

\* Two rate-limit failures and then a success under max_retries = 2.
C9_Witness ==
    /\ wrapper = "decorator"
    /\ max_retries = 2
    /\ wpc = "returned"
    /\ only_rate_limits
    /\ failures = 2
    /\ invocations = 3
    /\ returned = "success"

\* C10 as stated: when the first call raises an authentication failure, the
\* retry wrapper and _run_query have invoked the call exactly once, have slept
\* zero times and raise an AuthenticationError.
C10_AuthenticationNeverSleeps ==
    (AuthenticationFailed /\ failures = 1) =>
        /\ wpc = "raised"
        /\ invocations = 1
        /\ sleeps = <<>>
        /\ thrown.kind = "AuthenticationError"

\* C10: an authentication failure is never retried.  When a call raises one,
\* the retry wrapper and _run_query make no further call and no sleep of a
\* retry and raise an AuthenticationError (the wrapper the one the call
\* raised); when the first call raises it, the call was invoked exactly once,
\* and the only sleep there can be is the one of _rate_limit that precedes the
\* call in _run_query.
C10_AuthenticationNeverRetried ==
    AuthenticationFailed =>
        /\ wpc = "raised"
        /\ thrown.kind = "AuthenticationError"
        /\ wrapper = "decorator" => thrown = call_raised
        /\ invocations = failures
        /\ Len(RetrySleeps) = failures - 1
        /\ failures = 1 =>
               /\ invocations = 1
               /\ RetrySleeps = <<>>
               /\ wrapper = "decorator" => sleeps = <<>>
               /\ Len(sleeps) <= 1

\* The first query of _run_query fails with an authentication failure after
\* _rate_limit has slept.
C10_Witness ==
    /\ wrapper = "run_query"
    /\ AuthenticationFailed
    /\ failures = 1
    /\ wpc = "raised"
    /\ Len(sleeps) = 1

\* The i-th failure of the wrapped call was followed by a sleep and a retry.
Retried(i) == i \in 1..Len(raises) /\ i <= Len(sleeps)

\* C11 as stated: when a call the decorator wraps fails with an APIError and
\* the budget is not used up, the wrapper sleeps the backoff delay and makes
\* the call again.
C11_APIErrorIsRetried ==
    wrapper = "decorator" =>
        \A i \in 1..Len(raises) :
            (raises[i].kind = "APIError" /\ i <= max_retries) =>
                /\ Retried(i)
                /\ sleeps[i].delay = Min(base_delay * Power(backoff_factor, i - 1), max_delay)

\* The retry-after hint a failure carries, <<>> when it carries none: the
\* retry_after of a RateLimitError, or the number in the Retry-After header of
\* the 429 response of an HTTPError.
CarriedHint(e) ==
    IF e.kind = "RateLimitError" THEN e.hint
    ELSE IF /\ e.kind = "HTTPError"
            /\ e.response /= <<>>
            /\ e.response[1].status_code = 429
            /\ e.response[1].retry_after.present
            /\ e.response[1].retry_after.numeric
    THEN <<e.response[1].retry_after.value>>
    ELSE <<>>

\* C12 as stated: when a retried rate-limit failure carries a retry-after hint
\* r, in RateLimitError.retry_after or in a Retry-After header, the wrapper
\* sleeps min(r, max_delay) before the next attempt and not the computed
\* backoff.
C12_HintTakesPrecedence ==
    wrapper = "decorator" =>
        \A i \in 1..Len(raises) :
            (Retried(i) /\ CarriedHint(raises[i]) /= <<>>) =>
                sleeps[i].delay = Min(CarriedHint(raises[i])[1], max_delay)

\* C13: with no retry-after hint, the delay the wrapper sleeps before retry
\* number k (k = 0, 1, ...) is min(base_delay * backoff_factor^k, max_delay);
\* these delays do not decrease with k, and no sleep, hinted or computed, is
\* longer than max_delay.
C13_BackoffSchedule ==
    wrapper = "decorator" =>
        /\ Len(sleeps) <= Len(raises)
        /\ \A i \in 1..Len(sleeps) :
               /\ sleeps[i].delay <= max_delay
               /\ CarriedHint(raises[i]) = <<>> =>
                      sleeps[i].delay = Min(base_delay * Power(backoff_factor, i - 1), max_delay)
        /\ \A i, j \in 1..Len(sleeps) :
               (i < j /\ CarriedHint(raises[i]) = <<>> /\ CarriedHint(raises[j]) = <<>>) =>
                   sleeps[i].delay <= sleeps[j].delay

\* Three retries without a hint, the first below the cap and the third at it.
C13_Witness ==
    /\ wrapper = "decorator"
    /\ Len(sleeps) = 3
    /\ \A i \in 1..3 : CarriedHint(raises[i]) = <<>>
    /\ sleeps[1].delay < max_delay
    /\ sleeps[2].delay > sleeps[1].delay
    /\ sleeps[3].delay = max_delay

\* C14: get_platform_status is read-only.  On every platform it calls
\* find_article_by_title once and, only when that found an article,
\* get_article; it calls nothing else (no publish_article, update_article or
\* delete_article), and the stored articles of every platform stay as they
\* were.
C14_StatusIsReadOnly ==
    caller = "status" =>
        /\ articles = articles_before
        /\ \A p \in Platforms :
               /\ Cardinality(CallsOf(p, "find_article_by_title")) <= 1
               /\ \A i \in 1..Len(calls[p]) :
                      /\ calls[p][i].op \in {"find_article_by_title", "get_article"}
                      /\ calls[p][i].op = "get_article" =>
                             /\ i > 1
                             /\ LookupFound(p)
                             /\ calls[p][i].article_id = FoundId(p)
        /\ pc = "returned" =>
               /\ Len(results) = Len(platform_clients)
               /\ \A p \in Configured : Cardinality(CallsOf(p, "find_article_by_title")) = 1

\* The status of two platforms was taken: on the first the article exists and
\* was fetched, on the second it does not exist.
C14_Witness ==
    /\ caller = "status"
    /\ pc = "returned"
    /\ Len(platform_clients) = 2
    /\ results[1].exists
    /\ CallsOf(platform_clients[1], "get_article") /= {}
    /\ ~results[2].exists
    /\ results[2].error = <<>>
    /\ articles[platform_clients[1]] /= <<>>

\* C15: validate_platform_clients returns one boolean per configured platform,
\* true exactly when get_articles of that client returned without raising; it
\* calls get_articles exactly once per client and nothing else, a failure of
\* one platform leaves the result of another as it is, and no exception
\* leaves the method.
C15_ValidateOncePerClient ==
    caller = "validate" =>
        /\ pc /= "raised"
        /\ raised = NoException
        /\ articles = articles_before
        /\ Len(results) <= Len(platform_clients)
        /\ \A i \in 1..Len(results) :
               LET p == platform_clients[i]
               IN  /\ results[i].platform = p
                   /\ Len(calls[p]) = 1
                   /\ calls[p][1].op = "get_articles"
                   /\ results[i].valid = (calls[p][1].exc = NoException)
        /\ \A p \in Platforms : Len(calls[p]) <= 1
        /\ pc = "returned" => Len(results) = Len(platform_clients)

\* Two clients were validated: the first failed, the second passed.
C15_Witness ==
    /\ caller = "validate"
    /\ pc = "returned"
    /\ Len(results) = 2
    /\ ~results[1].valid
    /\ results[2].valid
    /\ calls[platform_clients[1]][1].exc.kind = "Exception"

\* handle_api_response was called and has ended.
Handled == fpc = "done" /\ input.function = "handle_api_response"

\* C16: handle_api_response gives every response exactly one result.  A
\* success status with a JSON body returns the parsed body; 401 and 403 raise
\* AuthenticationError; 429 raises RateLimitError whose retry_after is the
\* number of the Retry-After header, or None; every other error status raises
\* APIError; a success status with a body that is no JSON raises APIError.  The
\* error raised carries the platform and the article title passed in.
C16_ResponseClassification ==
    Handled =>
        LET r == input.response
            error_status == r.status_code >= 400
        IN  /\ output.outcome \in {"returned", "raised"}
            /\ (~error_status /\ r.body.json /= <<>>) =>
                   output.outcome = "returned" /\ output.value = r.body.json
            /\ (~error_status /\ r.body.json = <<>>) =>
                   output.outcome = "raised" /\ output.kind = "APIError"
            /\ r.status_code \in {401, 403} =>
                   output.outcome = "raised" /\ output.kind = "AuthenticationError"
            /\ r.status_code = 429 =>
                   /\ output.outcome = "raised"
                   /\ output.kind = "RateLimitError"
                   /\ output.retry_after =
                          IF r.retry_after.present /\ r.retry_after.numeric
                          THEN <<r.retry_after.value>>
                          ELSE <<>>
            /\ (error_status /\ r.status_code \notin {401, 403, 429}) =>
                   output.outcome = "raised" /\ output.kind = "APIError"
            /\ output.outcome = "raised" =>
                   /\ output.platform = input.platform
                   /\ output.article_title = input.article_title

\* A 429 response with the header Retry-After: 100 was classified.
C16_Witness ==
    /\ Handled
    /\ input.response.status_code = 429
    /\ input.response.retry_after = NumericHeader(100)
    /\ output.kind = "RateLimitError"
    /\ output.retry_after = <<100>>

\* normalize_content_for_comparison was called and has ended.
Normalized == fpc = "done" /\ input.function = "normalize_content_for_comparison"

\* C17 as stated: normalize_content_for_comparison is idempotent, for every
\* text x normalize(normalize(x)) = normalize(x), also when an align attribute
\* is at the start or the end of x and when removing one leaves another.
C17_NormalizeIsIdempotent ==
    Normalized => output.twice = output.once

\* A line of m is a delimiter line: three dashes and nothing else.
HasDelimiterLine(m) ==
    \E i \in 1..Len(m) :
        /\ StartsWithAt(m, i, <<"-", "-", "-">>)
        /\ i = 1 \/ m[i - 1] = "\n"
        /\ i + 3 > Len(m) \/ m[i + 3] = "\n"

\* Text b begins with a front-matter block of its own.
BeginsWithFrontmatter(b) ==
    /\ StartsWithAt(b, 1, <<"-", "-", "-", "\n">>)
    /\ \E i \in 4..Len(b) : StartsWithAt(b, i, <<"\n", "-", "-", "-", "\n">>)

\* The steps of the normalisation that follow the removal of front matter.
CollapseAndRemoveAlign(t) == RemoveAlign(CollapseWhitespace(Strip(t)))

\* The call was made with a front-matter block whose metadata holds no
\* delimiter line.
FrontmatterGiven ==
    /\ Normalized
    /\ input.metadata /= <<>>
    /\ ~HasDelimiterLine(input.metadata[1])

\* C18 as stated: for every metadata m without a delimiter line and every body
\* b, normalize("---\n" + m + "\n---\n" + b) = normalize(b).
C18_FrontmatterEqualsBody ==
    FrontmatterGiven => output.once = normalize_content_for_comparison(input.body)

\* C18: one leading front-matter block is stripped.  For every metadata m
\* without a delimiter line and every body b,
\* normalize("---\n" + m + "\n---\n" + b) is b with its whitespace collapsed
\* and its align attributes removed, which is normalize(b) unless b begins with
\* a front-matter block of its own; and in a text that does not start with the
\* opening delimiter no three-dash line is treated as front matter.
C18_LeadingFrontmatterIsStripped ==
    /\ FrontmatterGiven =>
           /\ output.once = CollapseAndRemoveAlign(input.body)
           /\ ~BeginsWithFrontmatter(input.body) =>
                  output.once = normalize_content_for_comparison(input.body)
    /\ (Normalized /\ input.metadata = <<>>
            /\ ~StartsWithAt(input.body, 1, <<"-", "-", "-", "\n">>)) =>
           output.once = CollapseAndRemoveAlign(input.body)

\* A front-matter block of two lines was stripped from before a body that
\* holds a three-dash line of its own.
C18_Witness ==
    /\ FrontmatterGiven
    /\ Len(input.metadata[1]) > 4
    /\ input.body = <<"x">> \o FrontmatterClose \o <<"x">>
    /\ output.once = <<"x", " ", "-", "-", "-", " ", "x">>

\* No article stored on p carried the item's title when the run began.
TitleAbsentBefore(p) ==
    \A i \in 1..Len(articles_before[p]) : articles_before[p][i].title /= post_content.title

\* The run has ended, the item's title was on none of the platforms and no
\* call of any client raised.
CleanFirstRun ==
    /\ caller = "publish"
    /\ Finished
    /\ \A p \in Configured : TitleAbsentBefore(p) /\ ~RaisedAnywhere(p)

\* C19: for an item whose title is on none of the N platforms and clients that
\* do not fail, publish_to_all_platforms returns N outcomes, all created with
\* a remote identifier; publish_article was called exactly once on every
\* platform and update_article never, and every platform stores exactly one
\* article of that title, the one article it has more than before (its only
\* article when it stored none).
C19_EndToEndCreate ==
    CleanFirstRun =>
        /\ raised = NoException
        /\ Len(results) = Len(platform_clients)
        /\ \A i \in 1..Len(results) :
               /\ results[i].platform = platform_clients[i]
               /\ results[i].success
               /\ results[i].action = "created"
               /\ results[i].article_id /= None
               /\ results[i].article_id = IdOf(Len(articles[platform_clients[i]]))
               /\ results[i].error_message = <<>>
        /\ \A p \in Configured :
               /\ Cardinality(CallsOf(p, "publish_article")) = 1
               /\ CallsOf(p, "update_article") = {}
               /\ Len(articles[p]) = Len(articles_before[p]) + 1
               /\ SubSeq(articles[p], 1, Len(articles_before[p])) = articles_before[p]
               /\ Cardinality({i \in 1..Len(articles[p]) :
                                  articles[p][i].title = post_content.title}) = 1
               /\ articles_before[p] = <<>> => Len(articles[p]) = 1

\* Two platforms that stored nothing each hold the one created article.
C19_Witness ==
    /\ CleanFirstRun
    /\ pc = "done"
    /\ Len(platform_clients) = 2
    /\ \A p \in Configured : articles_before[p] = <<>> /\ Len(articles[p]) = 1
    /\ results[1].action = "created"
    /\ results[2].action = "created"
    /\ results[2].article_id = IdOf(1)

\* The exception that ended the processing of p: the one its last call raised.
EndingException(p) == LastCall(p).exc

\* C20 as stated: the error_message of an error outcome is the message of the
\* exception that was raised, unchanged, be the exception classified or not.
C20_MessageUnchanged ==
    (caller = "publish" /\ Finished) =>
        \A i \in 1..Len(results) :
            results[i].action = "error" =>
                results[i].error_message = <<EndingException(results[i].platform).msg>>

\* C20: an error outcome carries the message of the exception that ended the
\* platform's processing: the message itself for a classified failure
\* (AuthenticationError, RateLimitError, APIError), and the message after the
\* prefix "Unexpected error: " for any other exception.
C20_MessageCarried ==
    (caller = "publish" /\ Finished) =>
        \A i \in 1..Len(results) :
            results[i].action = "error" =>
                LET e == EndingException(results[i].platform)
                IN  /\ e /= NoException
                    /\ ~results[i].success
                    /\ e.kind \in {"AuthenticationError", "RateLimitError", "APIError"} =>
                           results[i].error_message = <<e.msg>>
                    /\ e.kind \notin {"AuthenticationError", "RateLimitError", "APIError"} =>
                           results[i].error_message = <<"Unexpected error: ", e.msg>>

\* One platform failed with a classified failure at update after its fetch
\* raised an exception that was absorbed, another with an unclassified one.
C20_Witness ==
    /\ caller = "publish"
    /\ pc = "done"
    /\ Len(results) = 2
    /\ results[1].error_message = <<"server error">>
    /\ \E j \in CallsOf(platform_clients[1], "get_article") :
           calls[platform_clients[1]][j].exc.kind = "Exception"
    /\ results[2].error_message = <<"Unexpected error: ", "boom">>

\* The mutating calls p has received.
MutatingCalls(p) == CallsOf(p, "publish_article") \cup CallsOf(p, "update_article")

\* C21: every publish_article and update_article call carries published =
\* not save_as_draft; a created outcome carries the identifier publish_article
\* returned and an updated outcome the identifier lookup returned.
C21_PublishedArgumentAndIds ==
    \A p \in Configured :
        /\ \A i \in MutatingCalls(p) :
               calls[p][i].published = ~post_content.save_as_draft
        /\ (HasResult(p) /\ ResultOf(p).action = "created") =>
               /\ LastCall(p).op = "publish_article"
               /\ LastCall(p).exc = NoException
               /\ ResultOf(p).article_id = LastCall(p).ret
               /\ ResultOf(p).article_id /= None
        /\ (HasResult(p) /\ ResultOf(p).action = "updated") =>
               /\ LookupFound(p)
               /\ ResultOf(p).article_id = FoundId(p)
               /\ LastCall(p).article_id = FoundId(p)

\* A run that created on one platform and updated on the other, for an item
\* that is not a draft.
C21_Witness ==
    /\ pc = "done"
    /\ ~post_content.save_as_draft
    /\ \E p, q \in Configured :
           /\ ResultOf(p).action = "created"
           /\ ResultOf(q).action = "updated"
    /\ C21_PublishedArgumentAndIds

\* What a call asked of the client: the call without the client's answer.
Request(c) ==
    IF c.op = "find_article_by_title" THEN <<c.op, c.title>>
    ELSE IF c.op = "get_article" THEN <<c.op, c.article_id, c.published>>
    ELSE IF c.op = "publish_article" THEN <<c.op, c.content_dict, c.published>>
    ELSE <<c.op, c.article_id, c.content_dict, c.published>>

UpdateRequest(p, id) ==
    <<"update_article", id, ContentDict(post_content, p), ~post_content.save_as_draft>>

\* The request that follows call c of p, as the item and the answer of p's
\* own client to c determine it; <<>> when c is the last call.
RequestAfter(p, c) ==
    IF c.op = "find_article_by_title"
    THEN IF c.exc /= NoException THEN <<>>
         ELSE IF c.ret = None
         THEN <<"publish_article", ContentDict(post_content, p), ~post_content.save_as_draft>>
         ELSE <<"get_article", c.ret, TRUE>>
    ELSE IF c.op = "get_article"
    THEN IF c.exc /= NoException
         THEN IF c.exc.kind \in Classified THEN <<>> ELSE UpdateRequest(p, c.article_id)
         ELSE IF c.ret /= <<>>
         THEN IF AnyDiffers(c.ret[1]) THEN UpdateRequest(p, c.article_id) ELSE <<>>
         ELSE IF c.published THEN <<"get_article", c.article_id, FALSE>>
         ELSE UpdateRequest(p, c.article_id)
    ELSE <<>>

\* The calls p received are the ones the item and the answers of p's own
\* client determine, from the lookup to the last call.
OwnCalls(p) ==
    /\ calls[p] /= <<>>
    /\ Request(calls[p][1]) = <<"find_article_by_title", post_content.title>>
    /\ \A i \in 1..(Len(calls[p]) - 1) :
           Request(calls[p][i + 1]) = RequestAfter(p, calls[p][i])
    /\ RequestAfter(p, LastCall(p)) = <<>>

\* C22: the outcome of a platform and the calls its client receives are a
\* function of the item and of that client's own answers: they are the same
\* at every position in the processing order and whatever the other clients
\* did.
C22_OrderIndependence ==
    \A p \in Configured :
        HasResult(p) =>
            /\ OwnCalls(p)
            /\ Cardinality(ResultsFor(p)) = 1
            /\ ResultOf(p) = OwnOutcome(p)

\* A two-platform run in which the platform processed first failed at lookup
\* and the one processed second was updated after an absorbed fetch failure.
C22_Witness ==
    /\ pc = "done"
    /\ platform_clients = <<"hashnode", "devto">>
    /\ ResultOf("hashnode").action = "error"
    /\ ResultOf("devto").action = "updated"
    /\ \E i \in CallsOf("devto", "get_article") : calls["devto"][i].exc /= NoException
    /\ C22_OrderIndependence

Compared == fpc = "done" /\ input.function = "_needs_update"

\* C23: _needs_update compares the tags as sets.  Replacing the item's tags,
\* or the article's tags in either form, by a list with the same distinct tags
\* leaves the result as it was; a tag that only one side has makes the result
\* true; and with all else equal, equal tag sets give false.
C23_TagsComparedAsSets ==
    Compared =>
        /\ ToSet(input.variant) = ToSet(input.tags) => output.item_varied = output.base
        /\ ToSet(input.variant) = ToSet(input.remote) => output.remote_varied = output.base
        /\ ToSet(input.tags) /= ToSet(input.remote) => output.base
        /\ (ToSet(input.tags) = ToSet(input.remote) /\ input.cover_image = "img")
               => ~output.base

\* The item's tags reordered with one repeated against a comma-separated
\* string, nothing changed; and a tag removed on the remote side.
C23_Witness ==
    /\ Compared
    /\ input.tags = <<TagY, TagX>>
    /\ input.remote = <<TagX, TagY>>
    /\ input.form = "comma_blank"
    /\ input.variant = <<TagX>>
    /\ input.variant_form = "comma"
    /\ input.cover_image = "img"
    /\ ~output.base
    /\ output.item_varied
    /\ output.remote_varied

Converted == fpc = "done" /\ input.function = "convert_tags_for_platform"

\* The reference policy, read character by character: a letter or digit is
\* kept in lower case, preceded by one hyphen when whitespace or hyphens came
\* since the last kept character; every other character is dropped.
RECURSIVE ReferenceSlug(_, _, _)
ReferenceSlug(tag, pending, acc) ==
    IF tag = <<>> THEN acc
    ELSE LET c == LowerChar(Head(tag))
         IN  IF c \in {LowerChars[i] : i \in 1..26} \cup Digits
             THEN ReferenceSlug(Tail(tag), FALSE,
                                acc \o (IF pending /\ acc /= <<>> THEN <<"-">> ELSE <<>>)
                                    \o <<c>>)
             ELSE IF c \in Whitespace \cup {"-"}
             THEN ReferenceSlug(Tail(tag), TRUE, acc)
             ELSE ReferenceSlug(Tail(tag), pending, acc)

\* The tags of a list that are not blank, in order.
RECURSIVE NonBlank(_)
NonBlank(tags) ==
    IF tags = <<>> THEN <<>>
    ELSE (IF Strip(Head(tags)) /= <<>> THEN <<Head(tags)>> ELSE <<>>) \o NonBlank(Tail(tags))

HasComma(tags) == \E i \in 1..Len(tags) : FindFrom(tags[i], 1, <<",">>) > 0

NonBlankProcessed == NonBlank(ProcessedTags(input.tags))

\* C25 as stated: the list convert_tags_for_platform returns for Hashnode has
\* at most five tags.
C25_ConvertedTagsAreCapped ==
    (Converted /\ input.platform = "hashnode") => Len(output.tags) <= 5

\* C25: convert_tags_for_platform returns one tag for every tag of the input
\* that is not blank, however many there are; the tag objects the Hashnode
\* client builds from them are the first five at most, in order, the others
\* being dropped.
C25_TagObjectsAreCapped ==
    (Converted /\ input.platform = "hashnode") =>
        /\ Len(output.tags) = Len(NonBlankProcessed)
        /\ Len(output.tag_objects) <= 5
        /\ LET sent == SelectSeq(output.tags, LAMBDA t : t /= <<>>)
           IN  /\ Len(output.tag_objects) = Min(5, Len(sent))
               /\ \A i \in 1..Len(output.tag_objects) :
                      output.tag_objects[i].name = sent[i]

\* More than five tags were converted for Hashnode, given one by one and as
\* one comma-separated tag: all are returned, five become tag objects.
C25_Witness ==
    /\ Converted
    /\ input.platform = "hashnode"
    /\ Len(input.tags) \in {1, 6}
    /\ Len(output.tags) = 6
    /\ Len(output.tag_objects) = 5
    /\ output.tag_objects[5].name = <<"e">>

Constructed == fpc = "done" /\ input.function = "PostPublisher"

\* The platforms that are enabled: the names of the argument, or of
\* ENABLED_PLATFORMS when the argument is None or empty.
EnabledPlatforms ==
    LET l == IF input.enabled_platforms /= <<>> /\ input.enabled_platforms[1] /= <<>>
             THEN input.enabled_platforms[1] ELSE input.env.enabled_platforms
    IN  {CleanName(l[i]) : i \in 1..Len(l)}

\* The enabled platforms whose credentials are present and whose constructor
\* returns a client.
Constructible ==
    {p \in EnabledPlatforms \cap {"devto", "hashnode"} :
        /\ input.env.constructor[p] = "client"
        /\ p = "devto" => input.env.devto_api_key
        /\ p = "hashnode" => input.env.hashnode_api_key /\ input.env.hashnode_username}

\* C26 as stated: construction raises ValueError if and only if no client
\* could be initialised, and keeps exactly the constructible platforms.
C26_ValueErrorIffNoClient ==
    Constructed =>
        /\ output.raised = "ValueError" <=> Constructible = {}
        /\ output.raised = None => ToSet(output.platform_clients) = Constructible

\* C26: once the configuration has loaded, construction keeps exactly the
\* enabled platforms whose client could be constructed and raises the
\* ValueError of _initialize_platform_clients if and only if there is none; a
\* RATE_LIMIT_DELAY that is no integer raises ValueError before any client is
\* tried.
C26_KeepsConstructibleClients ==
    Constructed =>
        IF input.env.rate_limit_delay \in {None, "5"}
        THEN /\ output.raised = "ValueError" <=> Constructible = {}
             /\ output.raised = "ValueError" => output.msg = NoClientsMessage
             /\ output.raised = None => ToSet(output.platform_clients) = Constructible
        ELSE output.raised = "ValueError" /\ output.msg = IntMessage

\* Both platforms are enabled with their credentials present, the DevTo
\* constructor raises AuthenticationError, and Hashnode alone is kept.
C26_Witness ==
    /\ Constructed
    /\ EnabledPlatforms = {"devto", "hashnode"}
    /\ input.env.devto_api_key
    /\ input.env.constructor["devto"] = "AuthenticationError"
    /\ output.raised = None
    /\ output.platform_clients = <<"hashnode">>

RunEnded == input.function = "publish_to_all_platforms" /\ fpc = "done"

\* The files of the run that have been handled so far.
Handled_Files == 1..Len(output.handled)

\* File k has no title, or an empty one.
Untitled(k) == input.md_files[k].title \in {<<>>, <<"">>}

\* C27: a file without a title, or with an empty one, is not handed to the
\* coordinator and no client receives a call for it; when the run ends every
\* file has been handled, and every file with a title was published to every
\* platform.
C27_UntitledIsRejected ==
    input.function = "publish_to_all_platforms" =>
        /\ \A k \in Handled_Files :
               /\ output.handled[k].file = k
               /\ Untitled(k) =>
                      /\ ~output.handled[k].published
                      /\ output.handled[k].calls_after = output.handled[k].calls_before
        /\ RunEnded =>
               /\ Len(output.handled) = Len(input.md_files)
               /\ \A k \in Handled_Files :
                      ~Untitled(k) =>
                          /\ output.handled[k].published
                          /\ Len(output.handled[k].results) = Len(platform_clients)
                          /\ \A p \in Configured :
                                 Len(output.handled[k].calls_after[p])
                                     > Len(output.handled[k].calls_before[p])

\* A run whose first file has an empty title and whose second file was
\* created on the platform.
C27_Witness ==
    /\ RunEnded
    /\ Len(input.md_files) = 2
    /\ input.md_files[1].title = <<"">>
    /\ input.md_files[2].title = <<"T">>
    /\ calls["devto"] /= <<>>
    /\ output.handled[2].results[1].action = "created"
    /\ output.handled[1].calls_after = [p \in Platforms |-> <<>>]

\* The calls client p received while file k was handled.
CallsDuring(k, p) ==
    SubSeq(output.handled[k].calls_after[p],
           Len(output.handled[k].calls_before[p]) + 1,
           Len(output.handled[k].calls_after[p]))

\* The coordinator has returned its results for file k.
Returned(k) == k \in Handled_Files /\ output.handled[k].results /= <<>>

\* While file k was handled client p was faithful: no call raised and every
\* fetch returned the stored article.
Faithful(k, p) ==
    \A i \in 1..Len(CallsDuring(k, p)) :
        LET c == CallsDuring(k, p)[i]
        IN  /\ c.exc = NoException
            /\ c.op = "get_article" => c.ret /= <<>>

ResultDuring(k, p) ==
    output.handled[k].results[CHOOSE i \in 1..Len(output.handled[k].results) :
                                  output.handled[k].results[i].platform = p]

\* C28: when the same document is published twice in a row to a faithful
\* client, the second time gives skipped and makes no update_article call.
C28_SecondPublishSkips ==
    input.function = "publish_to_all_platforms" =>
        \A k \in Handled_Files, p \in Configured :
            (/\ Returned(k) /\ Returned(k + 1)
             /\ input.md_files[k] = input.md_files[k + 1]
             /\ Faithful(k, p) /\ Faithful(k + 1, p))
            => /\ ResultDuring(k + 1, p).action = "skipped"
               /\ \A i \in 1..Len(CallsDuring(k + 1, p)) :
                      CallsDuring(k + 1, p)[i].op /= "update_article"

\* The articles of platform p that carry the title.
Titled(p, title) == {i \in 1..Len(articles[p]) : articles[p][i].title = title}

\* C29: at every point of a run over any list of files, every platform holds
\* at most one article of each title, and the coordinator is about to call
\* publish_article only for a title the platform does not hold.
C29_NoDuplicates ==
    input.function = "publish_to_all_platforms" =>
        /\ \A p \in Platforms, title \in {"T", "U"} : Cardinality(Titled(p, title)) <= 1
        /\ pc = "create" => Titled(Platform, post_content.title) = {}

\* Two files of the same title were published and the platform, which held
\* another article before, holds one article of that title, created for the
\* first file.
C29_Witness ==
    /\ RunEnded
    /\ Len(input.md_files) = 2
    /\ input.md_files[1].title = <<"T">>
    /\ input.md_files[2].title = <<"T">>
    /\ platform_clients = <<"devto">>
    /\ Len(articles["devto"]) = 2
    /\ Cardinality(Titled("devto", "T")) = 1
    /\ Cardinality(CallsOf("devto", "publish_article")) = 1
    /\ output.handled[2].results[1].action \in {"updated", "skipped"}

\* C30: within one run of publish_to_all_platforms a client that has received
\* calls received find_article_by_title first and once; it received at most
\* one of publish_article and update_article; and before an update_article
\* it received a get_article for the identifier lookup returned, which is the
\* identifier the update is made for.  A platform with an outcome has received
\* its lookup.
C30_CallProtocol ==
    \A p \in Configured :
        /\ HasResult(p) => calls[p] /= <<>>
        /\ calls[p] /= <<>> =>
               /\ calls[p][1].op = "find_article_by_title"
               /\ CallsOf(p, "find_article_by_title") = {1}
               /\ Cardinality(MutatingCalls(p)) <= 1
               /\ \A i \in CallsOf(p, "update_article") :
                      /\ calls[p][1].exc = NoException
                      /\ calls[p][1].ret /= None
                      /\ calls[p][i].article_id = calls[p][1].ret
                      /\ \E j \in CallsOf(p, "get_article") :
                             j < i /\ calls[p][j].article_id = calls[p][1].ret

\* A finished run with two platforms: one was updated after both fetches,
\* the other created.
C30_Witness ==
    /\ pc = "done"
    /\ Len(platform_clients) = 2
    /\ \E p, q \in Configured :
           /\ Len(calls[p]) = 4
           /\ calls[p][4].op = "update_article"
           /\ calls[p][4].exc = NoException
           /\ Len(calls[q]) = 2
           /\ calls[q][2].op = "publish_article"
    /\ C30_CallProtocol

\* The fetches client p has received, in order.
Fetches(p) == SelectSeq(calls[p], LAMBDA c : c.op = "get_article")

\* C31: a change-detection check fetches at most twice; the first fetch asks
\* for the published article, a second one asks for the draft and is made
\* only when the first returned nothing; and the answer of the check is the
\* comparison with the first article a fetch returned.
C31_FetchOrder ==
    \A p \in Configured :
        LET f == Fetches(p)
        IN  /\ Len(f) <= 2
            /\ Len(f) >= 1 => f[1].published = TRUE /\ f[1].article_id = article_id
            /\ Len(f) = 2 =>
                   /\ f[2].published = FALSE
                   /\ f[2].article_id = article_id
                   /\ f[1].exc = NoException
                   /\ f[1].ret = <<>>
            /\ (pc = "returned" /\ f[Len(f)].exc = NoException /\ f[Len(f)].ret /= <<>>)
                   => needs_update = AnyDiffers(f[Len(f)].ret[1])

\* A check whose first fetch returned nothing and whose second fetch returned
\* the draft, which was compared and found unchanged.
C31_Witness ==
    /\ pc = "returned"
    /\ \E p \in Configured :
           /\ Len(Fetches(p)) = 2
           /\ Fetches(p)[1].ret = <<>>
           /\ Fetches(p)[2].ret /= <<>>
           /\ ~Fetches(p)[2].ret[1].published
    /\ ~needs_update

\* A message, the sequence of the strings it is concatenated from, is not the
\* empty text.
NonEmptyMessage(message) == \E i \in 1..Len(message) : message[i] /= ""

AuthenticationFailure(e) == e.kind = "TransportError" /\ e.transport_auth

RateLimitFailure(e) ==
    e.kind = "TransportError" /\ ~e.transport_auth /\ e.transport_rate

OtherTransportFailure(e) ==
    e.kind = "TransportError" /\ ~e.transport_auth /\ ~e.transport_rate

LastRaised == raises[Len(raises)]

\* C33 as stated: _run_query executes the query at most max_retries + 1 (4)
\* times; when every attempt fails with a transport error it raises
\* RateLimitError if the last failure was a rate-limit failure and APIError
\* otherwise; a non-transport exception raises APIError after exactly one
\* execution.
C33_TerminalErrorAsStated ==
    (wrapper = "run_query") =>
        /\ invocations <= max_retries + 1
        /\ max_retries + 1 = 4
        /\ (wpc = "raised"
              /\ \A i \in 1..Len(raises) : raises[i].kind = "TransportError") =>
               thrown.kind = IF LastRaised.transport_rate THEN "RateLimitError"
                             ELSE "APIError"
        /\ (wpc = "raised" /\ LastRaised.kind /= "TransportError") =>
               /\ thrown.kind = "APIError"
               /\ invocations = 1

\* C33: _run_query surfaces a terminal error of the matching kind.  The query
\* is executed at most max_retries + 1 (4) times, every failure but the last
\* one being a transport error that does not tell of authentication.  A
\* transport error that tells of 401, 403 or Unauthorized raises
\* AuthenticationError at once, on whichever attempt it comes; a non-transport
\* exception raises APIError at once, after exactly one execution when it is
\* the first failure; when all max_retries + 1 attempts fail with transport
\* errors of the other kinds, it raises RateLimitError if the last failure was
\* a rate-limit failure and APIError otherwise.
C33_TerminalErrorMatchesLastFailure ==
    (wrapper = "run_query") =>
        /\ invocations <= max_retries + 1
        /\ max_retries + 1 = 4
        /\ wpc = "raised" =>
               /\ failures = invocations
               /\ Len(raises) = invocations
               /\ \A i \in 1..(Len(raises) - 1) :
                      RateLimitFailure(raises[i]) \/ OtherTransportFailure(raises[i])
               /\ Len(RetrySleeps) = invocations - 1
               /\ AuthenticationFailure(LastRaised) =>
                      thrown.kind = "AuthenticationError"
               /\ LastRaised.kind /= "TransportError" =>
                      /\ thrown.kind = "APIError"
                      /\ Len(raises) = 1 => invocations = 1
               /\ RateLimitFailure(LastRaised) =>
                      /\ thrown.kind = "RateLimitError"
                      /\ invocations = max_retries + 1
               /\ OtherTransportFailure(LastRaised) =>
                      /\ thrown.kind = "APIError"
                      /\ invocations = max_retries + 1

\* Four executions fail, the last one with a rate-limit failure after a plain
\* transport error: _run_query has slept three times and raises RateLimitError.
C33_Witness ==
    /\ wrapper = "run_query"
    /\ wpc = "raised"
    /\ invocations = 4
    /\ Len(raises) = 4
    /\ OtherTransportFailure(raises[3])
    /\ RateLimitFailure(raises[4])
    /\ Len(RetrySleeps) = 3
    /\ thrown.kind = "RateLimitError"

\* C34: the retry wrapper only ever raises an exception the wrapped function
\* itself raised, for every exception kind, an HTTPError without a response
\* object included: the last one raised when the budget is used up, and the
\* first exception of a kind that is not retried, which ends the loop.
C34_RaisesWhatTheFunctionRaised ==
    (wrapper = "decorator" /\ wpc = "raised") =>
        /\ failures >= 1
        /\ thrown = raises[Len(raises)]
        /\ \/ RetryClause(thrown) = "other"
           \/ invocations = max_retries + 1

\* The entry of the returned dict for the i-th configured platform.
EntryOf(i) == results[i]

\* C35: get_platform_status returns exactly one entry per configured platform
\* and never raises, and it reports exists = true with the remote identifier
\* for every platform on which lookup found the article, also when the
\* change-detection fetch that follows fails with a classified error, the
\* entry then carrying the error text as well.
C35_StatusReportsFoundArticles ==
    caller = "status" =>
        /\ pc /= "raised"
        /\ pc = "returned" =>
               /\ Len(results) = Len(platform_clients)
               /\ \A i \in 1..Len(results) :
                      LET p == platform_clients[i]
                      IN  /\ EntryOf(i).platform = p
                          /\ LookupFound(p) =>
                                 /\ EntryOf(i).exists
                                 /\ EntryOf(i).article_id = FoundId(p)
                                 /\ FetchRaised(p, Classified) =>
                                        EntryOf(i).error = <<MessageOf(LastCall(p).exc.kind)>>

\* The step is a successful publish_article or update_article call on p.
WrittenBy(p) ==
    /\ Len(calls'[p]) = Len(calls[p]) + 1
    /\ calls'[p][Len(calls'[p])].op \in {"publish_article", "update_article"}
    /\ calls'[p][Len(calls'[p])].exc = NoException

\* C36: publish_to_all_platforms retains no local state and mutates none of
\* its inputs.  While it runs and when it returns, the ContentItem (its tag
\* list and body included) and the coordinator's platform-client map are what
\* they were when it was called, and a platform's stored articles change only
\* in a step in which that platform's client returns from publish_article or
\* update_article.
C36_InputsUnchanged ==
    [][(fpc = "publishing" /\ caller = "publish") =>
           /\ post_content' = post_content
           /\ post_content = from_frontmatter(input.md_files[output.file])
           /\ platform_clients' = platform_clients
           /\ \A p \in Platforms : articles'[p] /= articles[p] => WrittenBy(p)]_vars

\* publish_to_all_platforms has returned for an item whose tag the conversion
\* rewrites; it created the article on one platform and the item is the one
\* parsed from the file.
C36_Witness ==
    /\ fpc = "publishing"
    /\ pc = "done"
    /\ post_content = from_frontmatter(input.md_files[output.file])
    /\ post_content.tags = <<TagUpper>>
    /\ convert_tags_for_platform(post_content.tags, platform_clients[1]) /= post_content.tags
    /\ results[1].action = "created"
    /\ articles /= articles_before

\* C37: tag round trip through the payload.  For every tag list, the empty
\* list included, the tag list the DevTo client derives from the coordinator's
\* payload by splitting the comma-joined string equals the converted tag list
\* the coordinator built; an item with no tags results in an empty tag list
\* being sent.
C37_TagRoundTrip ==
    (Converted /\ input.platform = "devto") =>
        /\ output.devto_tags = output.tags
        /\ input.tags = <<>> => output.devto_tags = <<>>

\* publish_to_devto has ended: it returned, or an exception left it.
DevtoEnded == input.function = "publish_to_devto" /\ fpc \in {"returned", "raised"}

NoClientCalled == \A p \in Platforms : calls[p] = <<>>

\* C38: publish_to_devto restricts and then restores.  While it runs only the
\* devto client receives calls; when it returns or raises, the publisher's
\* platform_clients map and its publication manager again cover exactly the
\* originally configured platforms; when no devto client is configured it
\* makes no client call and changes nothing.
C38_RestrictsAndRestores ==
    input.function = "publish_to_devto" =>
        /\ \A p \in Platforms \ {"devto"} : calls[p] = <<>>
        /\ fpc \in {"file", "publishing", "done", "escaped"} =>
               /\ output.platform_clients = <<"devto">>
               /\ platform_clients = <<"devto">>
        /\ DevtoEnded =>
               /\ output.platform_clients = input.platform_clients
               /\ platform_clients = input.platform_clients
        /\ "devto" \notin ToSet(input.platform_clients) =>
               /\ NoClientCalled
               /\ articles = articles_before
               /\ output = [file |-> 1, handled |-> <<>>,
                            platform_clients |-> input.platform_clients]
               /\ platform_clients = input.platform_clients
               /\ fpc \in {"restrict", "returned"}

\* publish_to_devto has returned on a publisher configured for hashnode and
\* devto: the devto client created an article, the hashnode client was never
\* called, and both maps hold the two platforms again.
C38_Witness ==
    /\ DevtoEnded
    /\ fpc = "returned"
    /\ input.platform_clients = <<"hashnode", "devto">>
    /\ output.platform_clients = <<"hashnode", "devto">>
    /\ platform_clients = <<"hashnode", "devto">>
    /\ CallsOf("devto", "publish_article") /= {}
    /\ calls["hashnode"] = <<>>
    /\ Len(output.handled) >= 1

====
